---- MODULE Spec2Model ----
(***************************************************************************)
(* Library management backend: the borrowing / return workflow and its     *)
(* consistency rules, as implemented twice in the repository:              *)
(*   - the REST routes (app/api/routes.py) on top of the repositories and  *)
(*     the UnitOfWork, and                                                  *)
(*   - the gRPC servicer (app/services/library_service.py) on top of       *)
(*     get_db_session.                                                      *)
(* The relational store is modelled by three tables (books, members,       *)
(* borrow_records) together with the constraints models.py declares on     *)
(* them.  Every request handler is one action: it runs its body on a       *)
(* working copy of the tables (the session) and the transaction wrapper    *)
(* either persists the working copy or rolls it back.                      *)
(* The UnitOfWork object and the borrow and return transactions are also   *)
(* modelled step by step (SpecUow, SpecCrash, SpecOverlap).                *)
(*                                                                         *)
(* Columns that no handler ever branches on (title, author, genre,         *)
(* published_year, phone, address, created_at, updated_at) are not         *)
(* carried; Member.name stands for the free-text columns that the gRPC     *)
(* update handlers write before their uniqueness check.                    *)
(***************************************************************************)
EXTENDS Integers, Sequences, FiniteSets, TLC

VARIABLES books, members, records, nextBookId, nextMemberId, today, last, uow, txns

vars == <<books, members, records, nextBookId, nextMemberId, today, last, uow,
         txns>>

-----------------------------------------------------------------------------
(* Bounds of the model *)

MaxBooks == 2
MaxMembers == 2
MaxRecords == 2
MaxCopies == 2
MaxDay == 1
MaxPage == 4
MaxPageSize == 3

(* Settings.max_books_per_member is configuration (default 5, read from the *)
(* environment); the model runs the service configured with a small limit.  *)
max_books_per_member == 2

(* Settings.default_borrow_days *)
default_borrow_days == 14

-----------------------------------------------------------------------------
(* Values *)

(* Optional values: None is the empty sequence, Some(x) a one-element one. *)
None == << >>
Some(x) == <<x>>

(* Python truthiness of an Optional[bool] *)
Truthy(v) == v = Some(TRUE)

(* ISBN column values: SQL NULL, the empty string and a real ISBN *)
NULL_ISBN == "NULL"
Isbns == {"", "A"}

Emails == {"a@x", "b@x"}
Names == {"n1", "n2"}

(* A partial-update field that the request does not carry *)
UNSET == "UNSET"

MemberIds == 1..MaxMembers

Max(a, b) == IF a >= b THEN a ELSE b
Min(a, b) == IF a <= b THEN a ELSE b

-----------------------------------------------------------------------------
(* The tables of one database state *)

Tables(bk, mb, rc) == [books |-> bk, members |-> mb, records |-> rc]

(* Rows of borrow_records that satisfy a filter *)
RecordIds(db) == DOMAIN db.records

ActiveIdsOfMember(db, m) ==
    {i \in RecordIds(db) : db.records[i].member_id = m /\ db.records[i].status = "BORROWED"}

ActiveIdsOfBook(db, b) ==
    {i \in RecordIds(db) : db.records[i].book_id = b /\ db.records[i].status = "BORROWED"}

(* Mutant: the count of active borrows filters on the wrong status *)
get_active_borrows_count_WrongStatus(db, m) ==
    Cardinality({i \in RecordIds(db) :
                    db.records[i].member_id = m /\ db.records[i].status = "RETURNED"})

(* BorrowRepository.get_active_borrows_count *)
get_active_borrows_count(db, m) == Cardinality(ActiveIdsOfMember(db, m))

(* BorrowRepository.get_total_borrows_count *)
get_total_borrows_count(db, m) ==
    Cardinality({i \in RecordIds(db) : db.records[i].member_id = m})

(* BorrowRepository.get_total_borrows_count_for_book *)
get_total_borrows_count_for_book(db, b) ==
    Cardinality({i \in RecordIds(db) : db.records[i].book_id = b})

(* BorrowRepository.get_active_borrows_for_book *)
get_active_borrows_for_book(db, b) == Cardinality(ActiveIdsOfBook(db, b))

(* Mutant: the duplicate check filters on the wrong status *)
has_active_borrow_WrongStatus(db, b, m) ==
    \E i \in RecordIds(db) :
        /\ db.records[i].book_id = b
        /\ db.records[i].member_id = m
        /\ db.records[i].status = "RETURNED"

(* BorrowRepository.has_active_borrow *)
has_active_borrow(db, b, m) ==
    \E i \in RecordIds(db) :
        /\ db.records[i].book_id = b
        /\ db.records[i].member_id = m
        /\ db.records[i].status = "BORROWED"

(* Mutant: every book counts as available *)
is_available_Always(book) == TRUE

(* BookEntity.is_available *)
is_available(book) == book.available_copies > 0

(* Mutant: eligibility ignores is_active *)
can_borrow_Always(member) == Some(TRUE)

(* MemberEntity.can_borrow *)
can_borrow(member) == member.is_active

(* Mutant: no record counts as returned *)
is_returned_Never(record) == FALSE

(* BorrowRecordEntity.is_returned *)
is_returned(record) == record.status = "RETURNED"

-----------------------------------------------------------------------------
(* Constraints of the schema (models.py): a flush or commit that would     *)
(* leave a row violating one of them raises IntegrityError.                *)

(* Mutant: the table lacks the upper bound of available_not_exceed_total *)
BookChecksOK_NoUpperBound(book) ==
    /\ book.total_copies >= 0
    /\ book.available_copies >= 0

(* Book.__table_args__: positive_copies, available_not_exceed_total *)
BookChecksOK(book) ==
    /\ book.total_copies >= 0
    /\ book.available_copies >= 0
    /\ book.available_copies <= book.total_copies

(* Book.isbn unique=True (NULLs are distinct) *)
IsbnUniqueOK(db) ==
    \A x, y \in DOMAIN db.books :
        (x # y /\ db.books[x].isbn # NULL_ISBN) => db.books[x].isbn # db.books[y].isbn

(* Member.email unique=True *)
EmailUniqueOK(db) ==
    \A x, y \in DOMAIN db.members : x # y => db.members[x].email # db.members[y].email

(* Mutant: the references of borrow_records are not enforced *)
ForeignKeysOK_Unenforced(db) == TRUE

(* BorrowRecord.book_id / member_id: nullable=False, ForeignKey *)
ForeignKeysOK(db) ==
    \A i \in RecordIds(db) :
        /\ db.records[i].book_id \in DOMAIN db.books
        /\ db.records[i].member_id \in DOMAIN db.members

(* BorrowRecord.__table_args__: valid_status, valid_dates *)
RecordChecksOK(record) ==
    /\ record.status \in {"BORROWED", "RETURNED"}
    /\ record.due_date >= record.borrow_date

ConstraintsOK(db) ==
    /\ \A b \in DOMAIN db.books : BookChecksOK(db.books[b])
    /\ IsbnUniqueOK(db)
    /\ EmailUniqueOK(db)
    /\ ForeignKeysOK(db)
    /\ \A i \in RecordIds(db) : RecordChecksOK(db.records[i])

-----------------------------------------------------------------------------
(* Outcome of a handler body: the working copy of the tables, whether the  *)
(* body raised, the error kind and a reason, and the id the body produced  *)
(* (0 when none).                                                          *)

Done(db, detail, id) ==
    [db |-> db, raised |-> FALSE, commit |-> FALSE, kind |-> "OK",
     detail |-> detail, id |-> id]

(* raise HTTPException(...) / context.abort(...) *)
Raise(db, kind, detail) ==
    [db |-> db, raised |-> TRUE, commit |-> FALSE, kind |-> kind,
     detail |-> detail, id |-> 0]

(* UnitOfWork.commit, as called at the end of a REST handler body *)
uow_commit(out) == [out EXCEPT !.commit = TRUE]

(* Mutant: what the handler wrote before it failed stays in the tables *)
rollback_KeepsWrites(committed, working) == working

(* Session.rollback: the working copy is discarded *)
rollback(committed, working) == committed

(* Session.commit: flushes the working copy; a row that violates a         *)
(* constraint of the schema makes the flush raise IntegrityError.          *)
session_commit(committed, out) ==
    IF ConstraintsOK(out.db)
    THEN [db |-> out.db, kind |-> out.kind, detail |-> out.detail, id |-> out.id]
    ELSE [db |-> rollback(committed, out.db), kind |-> "IntegrityError",
          detail |-> "integrity error", id |-> 0]

(* `with uow:` around a REST handler body (UnitOfWork.__exit__): an        *)
(* exception rolls back; what was not committed is dropped when the owned  *)
(* session is closed.                                                      *)
UnitOfWork(committed, out) ==
    IF out.raised
    THEN [db |-> rollback(committed, out.db), kind |-> out.kind,
          detail |-> out.detail, id |-> 0]
    ELSE IF out.commit
    THEN session_commit(committed, out)
    ELSE [db |-> committed, kind |-> out.kind, detail |-> out.detail, id |-> out.id]

(* `with get_db_session() as db:` around a gRPC handler body: commit on    *)
(* normal exit, rollback on an exception (context.abort raises).           *)
get_db_session(committed, out) ==
    IF out.raised
    THEN [db |-> rollback(committed, out.db), kind |-> out.kind,
          detail |-> out.detail, id |-> 0]
    ELSE session_commit(committed, out)

-----------------------------------------------------------------------------
(* Session-level writes *)

PutBook(db, b, book) ==
    [db EXCEPT !.books = [x \in DOMAIN db.books \cup {b} |->
                              IF x = b THEN book ELSE db.books[x]]]

PutMember(db, m, member) ==
    [db EXCEPT !.members = [x \in DOMAIN db.members \cup {m} |->
                                IF x = m THEN member ELSE db.members[x]]]

(* Mutant: the row of the book is not deleted *)
session_delete_book_Keeps(db, b) == db

(* session.delete(book): the book row is deleted and, the relationship     *)
(* Book.borrow_records having no delete cascade, the rows that reference   *)
(* it get book_id = NULL (0 here), which the schema then refuses.          *)
session_delete_book(db, b) ==
    [db EXCEPT !.books = [x \in DOMAIN db.books \ {b} |-> db.books[x]],
               !.records = [i \in DOMAIN db.records |->
                               IF db.records[i].book_id = b
                               THEN [db.records[i] EXCEPT !.book_id = 0]
                               ELSE db.records[i]]]

(* Mutant: Member.borrow_records cascades the delete to the records *)
session_delete_member_Cascade(db, m) ==
    [db EXCEPT !.members = [x \in DOMAIN db.members \ {m} |-> db.members[x]],
               !.records = SelectSeq(db.records, LAMBDA r : r.member_id # m)]

(* session.delete(member): as for a book, through Member.borrow_records *)
session_delete_member(db, m) ==
    [db EXCEPT !.members = [x \in DOMAIN db.members \ {m} |-> db.members[x]],
               !.records = [i \in DOMAIN db.records |->
                               IF db.records[i].member_id = m
                               THEN [db.records[i] EXCEPT !.member_id = 0]
                               ELSE db.records[i]]]

-----------------------------------------------------------------------------
(* BookRepository *)

(* Mutant: the book that is being updated is not excluded *)
isbn_exists_IncludesSelf(db, isbn, exclude_id) ==
    \E x \in DOMAIN db.books : db.books[x].isbn = isbn

(* BookRepository.isbn_exists; exclude_id 0 stands for "not given" *)
isbn_exists(db, isbn, exclude_id) ==
    \E x \in DOMAIN db.books :
        /\ db.books[x].isbn = isbn
        /\ (exclude_id # 0 => x # exclude_id)

(* BookRepository.create *)
BookRepository_create(db, id, isbn, total_copies, available_copies) ==
    PutBook(db, id, [isbn |-> isbn, total_copies |-> total_copies,
                     available_copies |-> available_copies])

(* Mutant: every copy of the new total is put on the shelf *)
BookRepository_update_ResetsAvailable(db, id, isbn, total_copies) ==
    LET model == db.books[id]
    IN PutBook(db, id,
               [isbn |-> IF isbn # UNSET THEN isbn ELSE model.isbn,
                total_copies |-> IF total_copies # None THEN total_copies[1]
                                 ELSE model.total_copies,
                available_copies |-> IF total_copies # None THEN total_copies[1]
                                     ELSE model.available_copies])

(* Mutant: available_copies is not adjusted to the new total *)
BookRepository_update_KeepsAvailable(db, id, isbn, total_copies) ==
    LET model == db.books[id]
    IN PutBook(db, id,
               [isbn |-> IF isbn # UNSET THEN isbn ELSE model.isbn,
                total_copies |-> IF total_copies # None THEN total_copies[1]
                                 ELSE model.total_copies,
                available_copies |-> model.available_copies])

(* BookRepository.update with kwargs isbn and total_copies.  isbn is UNSET *)
(* and total_copies is None when the key is absent or its value is None,   *)
(* which the method treats alike.                                          *)
BookRepository_update(db, id, isbn, total_copies) ==
    LET model == db.books[id]
        avail == IF total_copies # None
                 THEN Max(0, model.available_copies
                             + (total_copies[1] - model.total_copies))
                 ELSE model.available_copies
    IN PutBook(db, id,
               [isbn |-> IF isbn # UNSET THEN isbn ELSE model.isbn,
                total_copies |-> IF total_copies # None THEN total_copies[1]
                                 ELSE model.total_copies,
                available_copies |-> avail])

(* Mutant: the copy is not taken off the shelf *)
decrease_available_copies_Skipped(db, b) == db

(* BookRepository.decrease_available_copies *)
decrease_available_copies(db, b) ==
    IF b \notin DOMAIN db.books \/ db.books[b].available_copies <= 0
    THEN db
    ELSE PutBook(db, b, [db.books[b] EXCEPT !.available_copies = @ - 1])

(* Mutant: the return also adds a copy to the book's total *)
increase_available_copies_Restocks(db, b) ==
    IF b \notin DOMAIN db.books THEN db
    ELSE PutBook(db, b, [db.books[b] EXCEPT !.available_copies = @ + 1,
                                            !.total_copies = @ + 1])

(* Mutant: the returned copy is not put back on the shelf *)
increase_available_copies_Skipped(db, b) == db

(* BookRepository.increase_available_copies *)
increase_available_copies(db, b) ==
    IF b \notin DOMAIN db.books
    THEN db
    ELSE PutBook(db, b, [db.books[b] EXCEPT
                            !.available_copies = Min(@ + 1, db.books[b].total_copies)])

-----------------------------------------------------------------------------
(* REST book routes (bodies of the `with uow:` blocks) *)

(* Mutant: the schema accepts any number of copies *)
BookCreate_NoLowerBound(total_copies) ==
    IF total_copies = None THEN Some(1) ELSE total_copies

(* schemas.BookCreate (BookBase.total_copies = Field(1, ge=1)): the value   *)
(* the handler receives for a request that carries total_copies (Some(n))  *)
(* or does not (None); None when the request fails validation (422)        *)
BookCreate(total_copies) ==
    IF total_copies = None THEN Some(1)
    ELSE IF total_copies[1] >= 1 THEN total_copies
    ELSE None

(* routes.create_book; isbn is NULL_ISBN when the request carries none *)
create_book(db, id, isbn, total_copies) ==
    IF isbn # NULL_ISBN /\ isbn # "" /\ isbn_exists(db, isbn, 0)
    THEN Raise(db, "AlreadyExists", "isbn exists")
    ELSE uow_commit(Done(BookRepository_create(db, id, isbn, total_copies, total_copies),
                         "created", id))

(* routes.update_book *)
update_book(db, book_id, isbn, total_copies) ==
    IF book_id \notin DOMAIN db.books
    THEN Raise(db, "NotFound", "book not found")
    ELSE IF isbn # UNSET /\ isbn # "" /\ isbn_exists(db, isbn, book_id)
    THEN Raise(db, "AlreadyExists", "isbn exists")
    ELSE uow_commit(Done(BookRepository_update(db, book_id, isbn, total_copies),
                         "updated", book_id))

(* routes.delete_book *)
delete_book(db, book_id) ==
    IF book_id \notin DOMAIN db.books
    THEN Raise(db, "NotFound", "book not found")
    ELSE IF get_active_borrows_for_book(db, book_id) > 0
    THEN Raise(db, "FailedPrecondition", "active borrows")
    ELSE IF get_total_borrows_count_for_book(db, book_id) > 0
    THEN Raise(db, "FailedPrecondition", "borrow history")
    ELSE uow_commit(Done(session_delete_book(db, book_id), "deleted", book_id))

-----------------------------------------------------------------------------
(* gRPC book operations (bodies of the `with get_db_session()` blocks).    *)
(* A proto3 string field that was not set reads "", an int field 0.        *)

(* LibraryServiceServicer.CreateBook *)
CreateBook(db, id, isbn, total_copies) ==
    IF isbn # "" /\ isbn_exists(db, isbn, 0)
    THEN Raise(db, "AlreadyExists", "isbn exists")
    ELSE LET n == IF total_copies > 0 THEN total_copies ELSE 1
         IN Done(PutBook(db, id, [isbn |-> IF isbn # "" THEN isbn ELSE NULL_ISBN,
                                  total_copies |-> n, available_copies |-> n]),
                 "created", id)

(* LibraryServiceServicer.UpdateBook *)
UpdateBook(db, id, isbn, total_copies) ==
    IF id \notin DOMAIN db.books
    THEN Raise(db, "NotFound", "book not found")
    ELSE IF isbn # "" /\ isbn_exists(db, isbn, id)
    THEN Raise(db, "AlreadyExists", "isbn exists")
    ELSE LET book == db.books[id]
             b1 == IF isbn # "" THEN [book EXCEPT !.isbn = isbn] ELSE book
             b2 == IF total_copies > 0
                   THEN [b1 EXCEPT !.total_copies = total_copies,
                                   !.available_copies =
                                       Max(0, book.available_copies
                                              + (total_copies - book.total_copies))]
                   ELSE b1
         IN Done(PutBook(db, id, b2), "updated", id)

(* LibraryServiceServicer.DeleteBook *)
DeleteBook(db, id) ==
    IF id \notin DOMAIN db.books
    THEN Raise(db, "NotFound", "book not found")
    ELSE IF get_active_borrows_for_book(db, id) > 0
    THEN Raise(db, "FailedPrecondition", "active borrows")
    ELSE Done(session_delete_book(db, id), "deleted", id)

-----------------------------------------------------------------------------
(* MemberRepository *)

(* Mutant: the member that is being updated is not excluded *)
email_exists_IncludesSelf(db, email, exclude_id) ==
    \E x \in DOMAIN db.members : db.members[x].email = email

(* MemberRepository.email_exists; exclude_id 0 stands for "not given" *)
email_exists(db, email, exclude_id) ==
    \E x \in DOMAIN db.members :
        /\ db.members[x].email = email
        /\ (exclude_id # 0 => x # exclude_id)

(* MemberRepository.create: is_active takes the column default, True *)
MemberRepository_create(db, id, name, email) ==
    PutMember(db, id, [name |-> name, email |-> email, is_active |-> Some(TRUE)])

(* MemberRepository.update with kwargs name, email and is_active.  name    *)
(* and email are UNSET when the key is absent or its value is None;        *)
(* is_active is None when the key is absent and Some(v) when it is present *)
(* with value v, v itself None, Some(TRUE) or Some(FALSE).                 *)
MemberRepository_update(db, id, name, email, is_active) ==
    LET model == db.members[id]
    IN PutMember(db, id,
                 [name |-> IF name # UNSET THEN name ELSE model.name,
                  email |-> IF email # UNSET THEN email ELSE model.email,
                  is_active |-> IF is_active # None THEN is_active[1]
                                ELSE model.is_active])

-----------------------------------------------------------------------------
(* REST member routes *)

(* routes.create_member *)
create_member(db, id, name, email) ==
    IF email_exists(db, email, 0)
    THEN Raise(db, "AlreadyExists", "email exists")
    ELSE uow_commit(Done(MemberRepository_create(db, id, name, email), "created", id))

(* routes.update_member *)
update_member(db, member_id, name, email, is_active) ==
    IF member_id \notin DOMAIN db.members
    THEN Raise(db, "NotFound", "member not found")
    ELSE IF email # UNSET /\ email_exists(db, email, member_id)
    THEN Raise(db, "AlreadyExists", "email exists")
    ELSE uow_commit(Done(MemberRepository_update(db, member_id, name, email, is_active),
                         "updated", member_id))

(* Mutant: the route does not look at the active borrows *)
delete_member_NoActiveCheck(db, member_id) ==
    IF member_id \notin DOMAIN db.members
    THEN Raise(db, "NotFound", "member not found")
    ELSE IF get_total_borrows_count(db, member_id) > 0
    THEN uow_commit(Done(MemberRepository_update(db, member_id, UNSET, UNSET,
                                                 Some(Some(FALSE))),
                         "deactivated", member_id))
    ELSE uow_commit(Done(session_delete_member(db, member_id), "deleted", member_id))

(* routes.delete_member *)
delete_member(db, member_id) ==
    IF member_id \notin DOMAIN db.members
    THEN Raise(db, "NotFound", "member not found")
    ELSE IF get_active_borrows_count(db, member_id) > 0
    THEN Raise(db, "FailedPrecondition", "active borrows")
    ELSE IF get_total_borrows_count(db, member_id) > 0
    THEN uow_commit(Done(MemberRepository_update(db, member_id, UNSET, UNSET,
                                                 Some(Some(FALSE))),
                         "deactivated", member_id))
    ELSE uow_commit(Done(session_delete_member(db, member_id), "deleted", member_id))

-----------------------------------------------------------------------------
(* gRPC member operations *)

(* LibraryServiceServicer.CreateMember *)
CreateMember(db, id, name, email) ==
    IF email_exists(db, email, 0)
    THEN Raise(db, "AlreadyExists", "email exists")
    ELSE Done(PutMember(db, id, [name |-> name, email |-> email,
                                 is_active |-> Some(TRUE)]),
              "created", id)

(* LibraryServiceServicer.UpdateMember: name is written before the email   *)
(* check aborts, and is_active is always assigned from the request (a      *)
(* proto3 bool that was not set reads false).                              *)
UpdateMember(db, id, name, email, is_active) ==
    IF id \notin DOMAIN db.members
    THEN Raise(db, "NotFound", "member not found")
    ELSE LET member == db.members[id]
             m1 == IF name # "" THEN [member EXCEPT !.name = name] ELSE member
             m2 == IF email # "" THEN [m1 EXCEPT !.email = email] ELSE m1
             m3 == [m2 EXCEPT !.is_active = Some(is_active)]
         IN IF email # "" /\ email_exists(db, email, id)
            THEN Raise(PutMember(db, id, m1), "AlreadyExists", "email exists")
            ELSE Done(PutMember(db, id, m3), "updated", id)

(* LibraryServiceServicer.DeleteMember *)
DeleteMember(db, id) ==
    IF id \notin DOMAIN db.members
    THEN Raise(db, "NotFound", "member not found")
    ELSE IF get_active_borrows_count(db, id) > 0
    THEN Raise(db, "FailedPrecondition", "active borrows")
    ELSE Done(session_delete_member(db, id), "deleted", id)

-----------------------------------------------------------------------------
(* BorrowRepository *)

(* BorrowRepository.create: the new row gets the next id; return_date is   *)
(* not passed and stays NULL.                                              *)
BorrowRepository_create(db, book_id, member_id, borrow_date, due_date, status) ==
    [db EXCEPT !.records = Append(@, [book_id |-> book_id, member_id |-> member_id,
                                      borrow_date |-> borrow_date,
                                      due_date |-> due_date,
                                      return_date |-> None, status |-> status])]

(* Mutant: marking a record returned leaves its return_date unset *)
mark_returned_StatusOnly(db, id, day) ==
    [db EXCEPT !.records[id] = [@ EXCEPT !.status = "RETURNED"]]

(* Mutant: marking a record returned also moves its due date *)
mark_returned_MovesDueDate(db, id, day) ==
    [db EXCEPT !.records[id] = [@ EXCEPT !.return_date = Some(day),
                                         !.status = "RETURNED",
                                         !.due_date = day]]

(* BorrowRepository.mark_returned with return_date defaulted to today *)
mark_returned(db, id, day) ==
    [db EXCEPT !.records[id] = [@ EXCEPT !.return_date = Some(day),
                                         !.status = "RETURNED"]]

-----------------------------------------------------------------------------
(* REST borrow routes *)

(* Mutant: the member is looked up before the book's availability *)
borrow_book_MemberFirst(db, book_id, member_id, day) ==
    IF book_id \notin DOMAIN db.books
    THEN Raise(db, "NotFound", "book not found")
    ELSE IF member_id \notin DOMAIN db.members
    THEN Raise(db, "NotFound", "member not found")
    ELSE IF ~is_available(db.books[book_id])
    THEN Raise(db, "FailedPrecondition", "book not available")
    ELSE IF ~Truthy(can_borrow(db.members[member_id]))
    THEN Raise(db, "FailedPrecondition", "member not active")
    ELSE IF get_active_borrows_count(db, member_id) >= max_books_per_member
    THEN Raise(db, "FailedPrecondition", "borrow limit reached")
    ELSE IF has_active_borrow(db, book_id, member_id)
    THEN Raise(db, "AlreadyExists", "duplicate borrow")
    ELSE LET d1 == decrease_available_copies(db, book_id)
             d2 == BorrowRepository_create(d1, book_id, member_id, day,
                                           day + default_borrow_days, "BORROWED")
         IN uow_commit(Done(d2, "borrowed", Len(d2.records)))

(* Mutant: the limit is compared with > instead of >= *)
borrow_book_LimitOffByOne(db, book_id, member_id, day) ==
    IF book_id \notin DOMAIN db.books
    THEN Raise(db, "NotFound", "book not found")
    ELSE IF ~is_available(db.books[book_id])
    THEN Raise(db, "FailedPrecondition", "book not available")
    ELSE IF member_id \notin DOMAIN db.members
    THEN Raise(db, "NotFound", "member not found")
    ELSE IF ~Truthy(can_borrow(db.members[member_id]))
    THEN Raise(db, "FailedPrecondition", "member not active")
    ELSE IF get_active_borrows_count(db, member_id) > max_books_per_member
    THEN Raise(db, "FailedPrecondition", "borrow limit reached")
    ELSE IF has_active_borrow(db, book_id, member_id)
    THEN Raise(db, "AlreadyExists", "duplicate borrow")
    ELSE LET d1 == decrease_available_copies(db, book_id)
             d2 == BorrowRepository_create(d1, book_id, member_id, day,
                                           day + default_borrow_days, "BORROWED")
         IN uow_commit(Done(d2, "borrowed", Len(d2.records)))

(* routes.borrow_book *)
borrow_book(db, book_id, member_id, day) ==
    IF book_id \notin DOMAIN db.books
    THEN Raise(db, "NotFound", "book not found")
    ELSE IF ~is_available(db.books[book_id])
    THEN Raise(db, "FailedPrecondition", "book not available")
    ELSE IF member_id \notin DOMAIN db.members
    THEN Raise(db, "NotFound", "member not found")
    ELSE IF ~Truthy(can_borrow(db.members[member_id]))
    THEN Raise(db, "FailedPrecondition", "member not active")
    ELSE IF get_active_borrows_count(db, member_id) >= max_books_per_member
    THEN Raise(db, "FailedPrecondition", "borrow limit reached")
    ELSE IF has_active_borrow(db, book_id, member_id)
    THEN Raise(db, "AlreadyExists", "duplicate borrow")
    ELSE LET d1 == decrease_available_copies(db, book_id)
             d2 == BorrowRepository_create(d1, book_id, member_id, day,
                                           day + default_borrow_days, "BORROWED")
         IN uow_commit(Done(d2, "borrowed", Len(d2.records)))

(* routes.return_book *)
return_book(db, borrow_id, day) ==
    IF borrow_id \notin RecordIds(db)
    THEN Raise(db, "NotFound", "borrow record not found")
    ELSE IF is_returned(db.records[borrow_id])
    THEN Raise(db, "FailedPrecondition", "already returned")
    ELSE LET d1 == mark_returned(db, borrow_id, day)
             d2 == increase_available_copies(d1, db.records[borrow_id].book_id)
         IN uow_commit(Done(d2, "returned", borrow_id))

-----------------------------------------------------------------------------
(* gRPC borrow operations *)

(* LibraryServiceServicer.BorrowBook *)
BorrowBook(db, book_id, member_id, day) ==
    IF book_id \notin DOMAIN db.books
    THEN Raise(db, "NotFound", "book not found")
    ELSE IF db.books[book_id].available_copies <= 0
    THEN Raise(db, "FailedPrecondition", "book not available")
    ELSE IF member_id \notin DOMAIN db.members
    THEN Raise(db, "NotFound", "member not found")
    ELSE IF ~Truthy(db.members[member_id].is_active)
    THEN Raise(db, "FailedPrecondition", "member not active")
    ELSE IF Cardinality(ActiveIdsOfMember(db, member_id)) >= max_books_per_member
    THEN Raise(db, "FailedPrecondition", "borrow limit reached")
    ELSE IF \E i \in RecordIds(db) :
                /\ db.records[i].book_id = book_id
                /\ db.records[i].member_id = member_id
                /\ db.records[i].status = "BORROWED"
    THEN Raise(db, "AlreadyExists", "duplicate borrow")
    ELSE LET d1 == PutBook(db, book_id,
                           [db.books[book_id] EXCEPT !.available_copies = @ - 1])
             d2 == [d1 EXCEPT !.records =
                        Append(@, [book_id |-> book_id, member_id |-> member_id,
                                   borrow_date |-> day,
                                   due_date |-> day + default_borrow_days,
                                   return_date |-> None, status |-> "BORROWED"])]
         IN Done(d2, "borrowed", Len(d2.records))

(* LibraryServiceServicer.ReturnBook: the increment is not clamped *)
ReturnBook(db, borrow_id, day) ==
    IF borrow_id \notin RecordIds(db)
    THEN Raise(db, "NotFound", "borrow record not found")
    ELSE IF db.records[borrow_id].status = "RETURNED"
    THEN Raise(db, "FailedPrecondition", "already returned")
    ELSE LET d1 == [db EXCEPT !.records[borrow_id] =
                        [@ EXCEPT !.return_date = Some(day), !.status = "RETURNED"]]
             b == db.records[borrow_id].book_id
             d2 == IF b \in DOMAIN d1.books
                   THEN PutBook(d1, b, [d1.books[b] EXCEPT !.available_copies = @ + 1])
                   ELSE d1
         IN Done(d2, "returned", borrow_id)

-----------------------------------------------------------------------------
(* Lookups by id; they write nothing *)

(* routes.get_book *)
get_book(db, book_id) ==
    IF book_id \notin DOMAIN db.books
    THEN Raise(db, "NotFound", "book not found")
    ELSE Done(db, "found", book_id)

(* LibraryServiceServicer.GetBook *)
GetBook(db, id) ==
    IF id \notin DOMAIN db.books
    THEN Raise(db, "NotFound", "book not found")
    ELSE Done(db, "found", id)

(* routes.get_member *)
get_member(db, member_id) ==
    IF member_id \notin DOMAIN db.members
    THEN Raise(db, "NotFound", "member not found")
    ELSE Done(db, "found", member_id)

(* LibraryServiceServicer.GetMember *)
GetMember(db, id) ==
    IF id \notin DOMAIN db.members
    THEN Raise(db, "NotFound", "member not found")
    ELSE Done(db, "found", id)

(* Listings (list_paginated of the three repositories) *)

(* Mutant: has_next is told from the size of the page *)
PaginatedResult_NextWhenFull(items, total_count, page, page_size) ==
    [items |-> items, total_count |-> total_count, page |-> page,
     page_size |-> page_size,
     total_pages |-> (total_count + page_size - 1) \div page_size,
     has_next |-> Len(items) = page_size,
     has_previous |-> page > 1]

(* domain.entities.PaginatedResult with its derived properties *)
PaginatedResult(items, total_count, page, page_size) ==
    LET total_pages == (total_count + page_size - 1) \div page_size
    IN [items |-> items, total_count |-> total_count, page |-> page,
        page_size |-> page_size,
        total_pages |-> total_pages,
        has_next |-> page < total_pages,
        has_previous |-> page > 1]

(* Mutant: the offset is counted in rows, not in pages *)
list_paginated_OffsetIsPage(matching, descending, page, page_size) ==
    LET RECURSIVE ordered(_)
        ordered(ids) ==
            IF ids = {} THEN << >>
            ELSE LET first == CHOOSE x \in ids :
                                  \A y \in ids : IF descending THEN y <= x ELSE x <= y
                 IN <<first>> \o ordered(ids \ {first})
        query == ordered(matching)
        offset == page - 1
    IN PaginatedResult(SubSeq(query, offset + 1, Min(offset + page_size, Len(query))),
                       Len(query), page, page_size)

(* query.count(); query.order_by(id).offset((page - 1) * page_size)         *)
(* .limit(page_size).all() over the ids of the rows that match the filters; *)
(* the items are given by their ids.                                        *)
list_paginated(matching, descending, page, page_size) ==
    LET RECURSIVE ordered(_)
        ordered(ids) ==
            IF ids = {} THEN << >>
            ELSE LET first == CHOOSE x \in ids :
                                  \A y \in ids : IF descending THEN y <= x ELSE x <= y
                 IN <<first>> \o ordered(ids \ {first})
        query == ordered(matching)
        offset == (page - 1) * page_size
    IN PaginatedResult(SubSeq(query, offset + 1, Min(offset + page_size, Len(query))),
                       Len(query), page, page_size)

(* the filters of BorrowRepository.list_paginated: member_id and book_id    *)
(* apply when they are truthy (not 0), status when it is not empty          *)
borrows_matching(db, member_id, book_id, status) ==
    {i \in RecordIds(db) :
        /\ member_id # 0 => db.records[i].member_id = member_id
        /\ book_id # 0 => db.records[i].book_id = book_id
        /\ status # "" => db.records[i].status = status}

-----------------------------------------------------------------------------
(* The UnitOfWork object step by step (repositories/unit_of_work.py).      *)
(* The request handlers above use it as one block; here its constructor,   *)
(* __enter__, accessor properties, commit, rollback and __exit__ are       *)
(* separate operations on the record `uow`:                                *)
(*   phase    "idle" (no object), "made" (constructed), "entered"          *)
(*   session  _session: "none", "existing" (the session handed to the     *)
(*            constructor) or "own" (the one __enter__ creates)            *)
(*   owns     _owns_session                                                *)
(*   books, members, borrows   _books, _members, _borrows: "none", or      *)
(*            the session the repository was constructed with              *)
(*   made     how many repositories of each kind were constructed          *)
(*   writes   rows written through the accessors since the last commit     *)
(*   existing, own   the rows each session has flushed but not committed   *)
(* A session's pending rows are the rows it wrote in its open transaction; *)
(* what the session reads is the committed store overlaid by them.         *)

AccessorKinds == {"books", "members", "borrows"}

(* what a session has written when SessionLocal() returns it: nothing *)
NoPending == [books |-> << >>, members |-> << >>]

NoUnitOfWork ==
    [phase |-> "idle", session |-> "none", owns |-> TRUE,
     books |-> "none", members |-> "none", borrows |-> "none",
     made |-> [k \in AccessorKinds |-> 0], writes |-> 0,
     existing |-> NoPending, own |-> NoPending]

Pending(u) == IF u.session = "existing" THEN u.existing ELSE u.own

SetPending(u, rows) ==
    IF u.session = "existing" THEN [u EXCEPT !.existing = rows]
    ELSE [u EXCEPT !.own = rows]

(* what a query through the unit of work's session returns *)
SessionView(u, db) ==
    LET Overlay(rows, written) ==
            [x \in DOMAIN rows \cup DOMAIN written |->
                IF x \in DOMAIN written THEN written[x] ELSE rows[x]]
    IN [db EXCEPT !.books = Overlay(db.books, Pending(u).books),
                  !.members = Overlay(db.members, Pending(u).members)]

(* the session after a repository wrote and flushed: `seen` is its view *)
session_flush(u, db, seen) ==
    LET Written(rows, now) ==
            LET changed == {x \in DOMAIN now : x \notin DOMAIN rows \/ rows[x] # now[x]}
            IN [x \in changed |-> now[x]]
    IN [SetPending(u, [books |-> Written(db.books, seen.books),
                       members |-> Written(db.members, seen.members)])
           EXCEPT !.writes = @ + 1]

UnitOfWork_init(u, given) ==
    [u EXCEPT !.phase = "made",
              !.session = IF given THEN "existing" ELSE "none",
              !.owns = ~given,
              !.books = "none", !.members = "none", !.borrows = "none",
              !.made = [k \in AccessorKinds |-> 0], !.writes = 0]

UnitOfWork_enter(u) ==
    IF u.session = "none"
    THEN [u EXCEPT !.phase = "entered", !.session = "own", !.own = NoPending]
    ELSE [u EXCEPT !.phase = "entered"]

(* Mutant: every access constructs a new repository *)
UnitOfWork_accessor_AlwaysNew(u, kind) ==
    [u EXCEPT ![kind] = u.session, !.made[kind] = @ + 1]

(* the books / members / borrows properties *)
UnitOfWork_accessor(u, kind) ==
    IF u[kind] = "none"
    THEN [u EXCEPT ![kind] = u.session, !.made[kind] = @ + 1]
    ELSE u

(* Mutant: rollback leaves the session's pending rows in place *)
UnitOfWork_rollback_Noop(u) == u

UnitOfWork_rollback(u) == [SetPending(u, NoPending) EXCEPT !.writes = 0]

(* commit: the session's pending rows become committed rows *)
UnitOfWork_commit(u) == [SetPending(u, NoPending) EXCEPT !.writes = 0]

(* Session.close() releases the transaction of the session: its pending    *)
(* rows are discarded.                                                     *)
Session_close(u) == SetPending(u, NoPending)

UnitOfWork_exit(u, exc) ==
    LET u1 == IF exc THEN UnitOfWork_rollback(u) ELSE u
        u2 == IF u1.owns /\ u1.session # "none" THEN Session_close(u1) ELSE u1
    IN [u2 EXCEPT !.phase = "idle"]

(* Requests as database transactions, statement by statement.  A borrow   *)
(* or return request in flight is a session with its own working copy of   *)
(* the tables: the rows it loaded stay as they were read (the identity map  *)
(* of the session does not reload a row it holds) and its writes stay in    *)
(* its transaction until commit.  pc is the position in the handler:        *)
(*   "idle", "checked" (reads and precondition checks done),                *)
(*   "first" (first UPDATE sent), "second" (both writes sent).              *)

Txns == {1, 2}

NoTransaction ==
    [pc |-> "idle", op |-> "none", book |-> 0, member |-> 0, record |-> 0,
     work |-> None]

(* the Book row a transaction has written and not yet committed is locked  *)
BookRowLocked(tx, t, b) ==
    \E o \in Txns \ {t} : /\ tx[o].pc \in {"first", "second"}
                          /\ tx[o].op = "Borrow"
                          /\ tx[o].book = b

(* the committed tables with the writes a transaction has sent so far *)
WithWritesOf(db, x) ==
    IF x.pc \notin {"first", "second"} THEN db
    ELSE LET w == x.work[1]
         IN IF x.op = "Borrow"
            THEN LET d1 == PutBook(db, x.book,
                                   [db.books[x.book] EXCEPT !.available_copies =
                                        w.books[x.book].available_copies])
                 IN IF x.pc = "first" THEN d1
                    ELSE [d1 EXCEPT !.records = Append(@, w.records[Len(w.records)])]
            ELSE LET d1 == [db EXCEPT !.records[x.record] = w.records[x.record]]
                     b == db.records[x.record].book_id
                 IN IF x.pc = "first" THEN d1
                    ELSE PutBook(d1, b, [d1.books[b] EXCEPT !.available_copies =
                                             w.books[b].available_copies])

(* Mutant: every statement is committed as soon as it is sent *)
sent_Autocommit(db, x) == WithWritesOf(db, x)

(* sessionmaker(autocommit=False): a statement that was sent changes       *)
(* nothing that another transaction can read until COMMIT                  *)
sent(db, x) == db

-----------------------------------------------------------------------------
Init ==
    /\ books = << >>
    /\ members = << >>
    /\ records = << >>
    /\ nextBookId = 1
    /\ nextMemberId = 1
    /\ today = 0
    /\ last = [op |-> "none", args |-> << >>, kind |-> "OK", detail |-> "none"]
    /\ uow = NoUnitOfWork
    /\ txns = [t \in Txns |-> NoTransaction]

-----------------------------------------------------------------------------
(* Request handlers as actions.  Each one runs a handler body on the       *)
(* committed tables inside its transaction wrapper, stores what the        *)
(* wrapper persisted and records the request and its outcome in `last`.    *)

Db == Tables(books, members, records)

Persist(res) ==
    /\ books' = res.db.books
    /\ members' = res.db.members
    /\ records' = res.db.records
    /\ uow' = uow
    /\ txns' = txns

Report(op, args, res) ==
    last' = [op |-> op, args |-> args, kind |-> res.kind, detail |-> res.detail]

(* id sequences of the store *)
TakeBookId(sc, res) ==
    /\ res.kind = "OK" => nextBookId <= sc.maxBooks
    /\ nextBookId' = IF res.kind = "OK" THEN nextBookId + 1 ELSE nextBookId

TakeMemberId(res) ==
    /\ res.kind = "OK" => nextMemberId <= MaxMembers
    /\ nextMemberId' = IF res.kind = "OK" THEN nextMemberId + 1 ELSE nextMemberId

(* The calendar day advances between requests (date.today()). *)
Tick ==
    /\ today < MaxDay
    /\ today' = today + 1
    /\ UNCHANGED <<books, members, records, nextBookId, nextMemberId, last, uow, txns>>

(* The handlers take the scope `sc` of the requests that are explored: the *)
(* ISBNs, copy counts, names and e-mail addresses that requests carry, the *)
(* is_active values of REST member updates and the number of borrow        *)
(* records made.                                                           *)

RestCreateBook(sc) ==
    \E isbn \in sc.isbns \cup {NULL_ISBN}, total_copies \in sc.copies :
        LET res == UnitOfWork(Db, create_book(Db, nextBookId, isbn, total_copies))
        IN /\ TakeBookId(sc, res)
           /\ Persist(res)
           /\ Report("CreateBook", << >>, res)
           /\ UNCHANGED <<nextMemberId, today>>

GrpcCreateBook(sc) ==
    \E isbn \in sc.isbns \cup {""}, total_copies \in sc.copies \cup {0} :
        LET res == get_db_session(Db, CreateBook(Db, nextBookId, isbn, total_copies))
        IN /\ TakeBookId(sc, res)
           /\ Persist(res)
           /\ Report("CreateBook", << >>, res)
           /\ UNCHANGED <<nextMemberId, today>>

RestUpdateBook(b, isbn, total_copies) ==
    LET res == UnitOfWork(Db, update_book(Db, b, isbn, total_copies))
    IN /\ Persist(res)
       /\ Report("UpdateBook", <<b>>, res)
       /\ UNCHANGED <<nextBookId, nextMemberId, today>>

GrpcUpdateBook(b, isbn, total_copies) ==
    LET res == get_db_session(Db, UpdateBook(Db, b, isbn, total_copies))
    IN /\ Persist(res)
       /\ Report("UpdateBook", <<b>>, res)
       /\ UNCHANGED <<nextBookId, nextMemberId, today>>

RestDeleteBook(b) ==
    LET res == UnitOfWork(Db, delete_book(Db, b))
    IN /\ Persist(res)
       /\ Report("DeleteBook", <<b>>, res)
       /\ UNCHANGED <<nextBookId, nextMemberId, today>>

GrpcDeleteBook(b) ==
    LET res == get_db_session(Db, DeleteBook(Db, b))
    IN /\ Persist(res)
       /\ Report("DeleteBook", <<b>>, res)
       /\ UNCHANGED <<nextBookId, nextMemberId, today>>

RestCreateMember(sc) ==
    \E name \in sc.names, email \in sc.emails :
        LET res == UnitOfWork(Db, create_member(Db, nextMemberId, name, email))
        IN /\ TakeMemberId(res)
           /\ Persist(res)
           /\ Report("CreateMember", << >>, res)
           /\ UNCHANGED <<nextBookId, today>>

GrpcCreateMember(sc) ==
    \E name \in sc.names, email \in sc.emails :
        LET res == get_db_session(Db, CreateMember(Db, nextMemberId, name, email))
        IN /\ TakeMemberId(res)
           /\ Persist(res)
           /\ Report("CreateMember", << >>, res)
           /\ UNCHANGED <<nextBookId, today>>

RestUpdateMember(m, name, email, is_active) ==
    LET res == UnitOfWork(Db, update_member(Db, m, name, email, is_active))
    IN /\ Persist(res)
       /\ Report("UpdateMember", <<m>>, res)
       /\ UNCHANGED <<nextBookId, nextMemberId, today>>

GrpcUpdateMember(m, name, email, is_active) ==
    LET res == get_db_session(Db, UpdateMember(Db, m, name, email, is_active))
    IN /\ Persist(res)
       /\ Report("UpdateMember", <<m>>, res)
       /\ UNCHANGED <<nextBookId, nextMemberId, today>>

RestDeleteMember(m) ==
    LET res == UnitOfWork(Db, delete_member(Db, m))
    IN /\ Persist(res)
       /\ Report("DeleteMember", <<m>>, res)
       /\ UNCHANGED <<nextBookId, nextMemberId, today>>

GrpcDeleteMember(m) ==
    LET res == get_db_session(Db, DeleteMember(Db, m))
    IN /\ Persist(res)
       /\ Report("DeleteMember", <<m>>, res)
       /\ UNCHANGED <<nextBookId, nextMemberId, today>>

RestBorrow(sc, b, m) ==
    LET res == UnitOfWork(Db, borrow_book(Db, b, m, today))
    IN /\ res.kind = "OK" => Len(records) < sc.maxRecords
       /\ Persist(res)
       /\ Report("Borrow", <<b, m>>, res)
       /\ UNCHANGED <<nextBookId, nextMemberId, today>>

GrpcBorrow(sc, b, m) ==
    LET res == get_db_session(Db, BorrowBook(Db, b, m, today))
    IN /\ res.kind = "OK" => Len(records) < sc.maxRecords
       /\ Persist(res)
       /\ Report("Borrow", <<b, m>>, res)
       /\ UNCHANGED <<nextBookId, nextMemberId, today>>

RestReturn(r) ==
    LET res == UnitOfWork(Db, return_book(Db, r, today))
    IN /\ Persist(res)
       /\ Report("Return", <<r>>, res)
       /\ UNCHANGED <<nextBookId, nextMemberId, today>>

GrpcReturn(r) ==
    LET res == get_db_session(Db, ReturnBook(Db, r, today))
    IN /\ Persist(res)
       /\ Report("Return", <<r>>, res)
       /\ UNCHANGED <<nextBookId, nextMemberId, today>>

RestGetBook(b) ==
    LET res == UnitOfWork(Db, get_book(Db, b))
    IN /\ Persist(res)
       /\ Report("GetBook", <<b>>, res)
       /\ UNCHANGED <<nextBookId, nextMemberId, today>>

GrpcGetBook(b) ==
    LET res == get_db_session(Db, GetBook(Db, b))
    IN /\ Persist(res)
       /\ Report("GetBook", <<b>>, res)
       /\ UNCHANGED <<nextBookId, nextMemberId, today>>

RestGetMember(m) ==
    LET res == UnitOfWork(Db, get_member(Db, m))
    IN /\ Persist(res)
       /\ Report("GetMember", <<m>>, res)
       /\ UNCHANGED <<nextBookId, nextMemberId, today>>

GrpcGetMember(m) ==
    LET res == get_db_session(Db, GetMember(Db, m))
    IN /\ Persist(res)
       /\ Report("GetMember", <<m>>, res)
       /\ UNCHANGED <<nextBookId, nextMemberId, today>>

(* Every lookup by id within the scope *)
Lookups(sc) ==
    \/ \E b \in 1..sc.maxBooks : RestGetBook(b)
    \/ \E b \in 1..sc.maxBooks : GrpcGetBook(b)
    \/ \E m \in MemberIds : RestGetMember(m)
    \/ \E m \in MemberIds : GrpcGetMember(m)

(* Every request a client can send within the scope *)
Requests(sc) ==
    \/ RestCreateBook(sc)
    \/ GrpcCreateBook(sc)
    \/ \E b \in 1..sc.maxBooks, isbn \in sc.isbns \cup {UNSET},
          total_copies \in {None} \cup {Some(n) : n \in sc.copies} :
           RestUpdateBook(b, isbn, total_copies)
    \/ \E b \in 1..sc.maxBooks, isbn \in sc.isbns \cup {""},
          total_copies \in sc.copies \cup {0} :
           GrpcUpdateBook(b, isbn, total_copies)
    \/ \E b \in 1..sc.maxBooks : RestDeleteBook(b)
    \/ \E b \in 1..sc.maxBooks : GrpcDeleteBook(b)
    \/ RestCreateMember(sc)
    \/ GrpcCreateMember(sc)
    \/ \E m \in MemberIds, name \in sc.renames \cup {UNSET},
          email \in sc.reemails \cup {UNSET}, is_active \in sc.actives :
           RestUpdateMember(m, name, email, is_active)
    \/ \E m \in MemberIds, name \in sc.renames \cup {""},
          email \in sc.reemails \cup {""}, is_active \in BOOLEAN :
           GrpcUpdateMember(m, name, email, is_active)
    \/ \E m \in MemberIds : RestDeleteMember(m)
    \/ \E m \in MemberIds : GrpcDeleteMember(m)
    \/ \E b \in 1..sc.maxBooks, m \in MemberIds : RestBorrow(sc, b, m)
    \/ \E b \in 1..sc.maxBooks, m \in MemberIds : GrpcBorrow(sc, b, m)
    \/ \E r \in 1..sc.maxRecords : RestReturn(r)
    \/ \E r \in 1..sc.maxRecords : GrpcReturn(r)

(* The lending workflow: catalogue data (ISBN, name) is left alone *)
Lending ==
    [isbns |-> {}, copies |-> 1..MaxCopies, names |-> {"n1"}, emails |-> Emails,
     renames |-> {},
     reemails |-> {}, actives |-> {None, Some(Some(TRUE)), Some(Some(FALSE))},
     maxBooks |-> MaxBooks, maxRecords |-> MaxRecords]

(* Lending of single-copy books, with one more book and one more borrow    *)
(* record than the borrow limit                                            *)
LendingPastLimit ==
    [Lending EXCEPT !.copies = {1},
                    !.emails = {"a@x"},
                    !.maxBooks = max_books_per_member + 1,
                    !.maxRecords = max_books_per_member + 1]

(* Member administration: names and e-mail addresses change, and          *)
(* is_active is also sent as an explicit null; single-copy books.          *)
Membership ==
    [isbns |-> {}, copies |-> {1}, names |-> {"n1"}, emails |-> Emails,
     renames |-> {"n2"}, reemails |-> Emails,
     actives |-> {None, Some(None), Some(Some(TRUE)), Some(Some(FALSE))},
     maxBooks |-> MaxBooks, maxRecords |-> 1]

Next == Requests(Lending)

Spec == Init /\ [][Next]_vars

NextPastLimit == Requests(LendingPastLimit)

SpecPastLimit == Init /\ [][NextPastLimit]_vars

NextMembers == Requests(Membership)

SpecMembers == Init /\ [][NextMembers]_vars

(* Lending to one member over several calendar days *)
LendingOverDays == [Lending EXCEPT !.emails = {"a@x"}]

NextDays == Tick \/ Requests(LendingOverDays)

SpecDays == Init /\ [][NextDays]_vars

(* Creation, removal and lookup of single-copy books and of members, with *)
(* at most one borrow record                                               *)
Removal == [Lending EXCEPT !.copies = {1}, !.maxRecords = 1]

NextRemoval == Requests(Removal) \/ Lookups(Removal)

SpecRemoval == Init /\ [][NextRemoval]_vars

(* Restocking: books are created with a single copy, and updates also ask *)
(* for larger totals, so a book with more than one copy has been restocked *)
Restock == [Lending EXCEPT !.copies = {1}]

Restocks ==
    \/ \E b \in 1..Restock.maxBooks, n \in 2..MaxCopies :
           RestUpdateBook(b, UNSET, Some(n))
    \/ \E b \in 1..Restock.maxBooks, n \in 2..MaxCopies :
           GrpcUpdateBook(b, "", n)

NextRestock == Requests(Restock) \/ Restocks

SpecRestock == Init /\ [][NextRestock]_vars

(* Cataloguing: books carry ISBNs; one member, single-copy books and at   *)
(* most one borrow record                                                  *)
Catalogue ==
    [Lending EXCEPT !.isbns = Isbns, !.copies = {1}, !.emails = {"a@x"},
                    !.actives = {None}, !.maxRecords = 1]

NextCatalogue == Requests(Catalogue)

SpecCatalogue == Init /\ [][NextCatalogue]_vars

-----------------------------------------------------------------------------
(* The unit of work used step by step by a caller: construct (with or      *)
(* without an existing session), enter, use the accessors, commit, and     *)
(* leave the block normally or by a raised failure.  New rows take their   *)
(* ids from the store's sequences; each new member carries an e-mail       *)
(* address of its own.                                                     *)

UowNew ==
    /\ uow.phase = "idle"
    /\ \E given \in BOOLEAN : uow' = UnitOfWork_init(uow, given)
    /\ Report("UnitOfWork", << >>, [kind |-> "OK", detail |-> "init"])
    /\ UNCHANGED <<books, members, records, nextBookId, nextMemberId, today, txns>>

UowEnter ==
    /\ uow.phase = "made"
    /\ uow' = UnitOfWork_enter(uow)
    /\ Report("UnitOfWork", << >>, [kind |-> "OK", detail |-> "enter"])
    /\ UNCHANGED <<books, members, records, nextBookId, nextMemberId, today, txns>>

UowAccess ==
    /\ uow.phase = "entered"
    /\ \E kind \in AccessorKinds :
           /\ uow' = UnitOfWork_accessor(uow, kind)
           /\ Report("UnitOfWork", << >>,
                     [kind |-> "OK",
                      detail |-> IF uow[kind] = "none" THEN "new accessor"
                                 ELSE "same accessor"])
    /\ UNCHANGED <<books, members, records, nextBookId, nextMemberId, today, txns>>

UowBooksCreate ==
    /\ uow.phase = "entered"
    /\ nextBookId <= MaxBooks
    /\ LET u == UnitOfWork_accessor(uow, "books")
           seen == BookRepository_create(SessionView(u, Db), nextBookId, NULL_ISBN, 1, 1)
       IN uow' = session_flush(u, Db, seen)
    /\ nextBookId' = nextBookId + 1
    /\ Report("UnitOfWork", << >>, [kind |-> "OK", detail |-> "books.create"])
    /\ UNCHANGED <<books, members, records, nextMemberId, today, txns>>

UowMembersCreate ==
    /\ uow.phase = "entered"
    /\ nextMemberId <= Min(MaxMembers, 2)
    /\ LET u == UnitOfWork_accessor(uow, "members")
           seen == MemberRepository_create(SessionView(u, Db), nextMemberId, "n",
                                           IF nextMemberId = 1 THEN "a@x" ELSE "b@x")
       IN uow' = session_flush(u, Db, seen)
    /\ nextMemberId' = nextMemberId + 1
    /\ Report("UnitOfWork", << >>, [kind |-> "OK", detail |-> "members.create"])
    /\ UNCHANGED <<books, members, records, nextBookId, today, txns>>

UowCommit ==
    /\ uow.phase = "entered"
    /\ LET seen == SessionView(uow, Db)
       IN /\ books' = seen.books
          /\ members' = seen.members
    /\ uow' = UnitOfWork_commit(uow)
    /\ Report("UnitOfWork", <<uow.writes>>, [kind |-> "OK", detail |-> "commit"])
    /\ UNCHANGED <<records, nextBookId, nextMemberId, today, txns>>

UowRaise ==
    /\ uow.phase = "entered"
    /\ uow' = UnitOfWork_exit(uow, TRUE)
    /\ Report("UnitOfWork", <<uow.writes>>, [kind |-> "Failure", detail |-> "raise"])
    /\ UNCHANGED <<books, members, records, nextBookId, nextMemberId, today, txns>>

UowExit ==
    /\ uow.phase = "entered"
    /\ uow' = UnitOfWork_exit(uow, FALSE)
    /\ Report("UnitOfWork", <<uow.writes>>, [kind |-> "OK", detail |-> "exit"])
    /\ UNCHANGED <<books, members, records, nextBookId, nextMemberId, today, txns>>

NextUow ==
    \/ UowNew
    \/ UowEnter
    \/ UowAccess
    \/ UowBooksCreate
    \/ UowMembersCreate
    \/ UowCommit
    \/ UowRaise
    \/ UowExit

SpecUow == Init /\ [][NextUow]_vars

-----------------------------------------------------------------------------
(* routes.borrow_book and routes.return_book as transactions.  The reads   *)
(* and precondition checks of a handler are one step; each write and the   *)
(* commit are steps of their own, so that other transactions and a crash   *)
(* of the process fall between them.                                       *)

StoreShows(db) ==
    /\ books' = db.books
    /\ members' = db.members
    /\ records' = db.records

(* borrow_book up to the last precondition (routes.py:319-347) *)
TxBorrowCheck(t, b, m) ==
    /\ txns[t].pc = "idle"
    /\ LET out == borrow_book(Db, b, m, today)
       IN IF out.raised
          THEN /\ Report("Borrow", <<b, m>>, out)
               /\ txns' = txns
          ELSE /\ txns' = [txns EXCEPT ![t] = [pc |-> "checked", op |-> "Borrow",
                                               book |-> b, member |-> m, record |-> 0,
                                               work |-> Some(Db)]]
               /\ last' = last
    /\ UNCHANGED <<books, members, records, nextBookId, nextMemberId, today, uow>>

(* uow.books.decrease_available_copies: UPDATE books                        *)
TxBorrowDecrease(t) ==
    /\ txns[t].pc = "checked"
    /\ txns[t].op = "Borrow"
    /\ ~BookRowLocked(txns, t, txns[t].book)
    /\ LET x == [txns[t] EXCEPT !.pc = "first",
                     !.work = Some(decrease_available_copies(@[1], txns[t].book))]
       IN /\ txns' = [txns EXCEPT ![t] = x]
          /\ StoreShows(sent(Db, x))
    /\ UNCHANGED <<nextBookId, nextMemberId, today, last, uow>>

(* uow.borrows.create: INSERT INTO borrow_records *)
TxBorrowCreate(t) ==
    /\ txns[t].pc = "first"
    /\ txns[t].op = "Borrow"
    /\ LET x == [txns[t] EXCEPT !.pc = "second",
                     !.work = Some(BorrowRepository_create(@[1], txns[t].book,
                                       txns[t].member, today,
                                       today + default_borrow_days, "BORROWED"))]
       IN /\ txns' = [txns EXCEPT ![t] = x]
          /\ StoreShows(sent(Db, x))
    /\ UNCHANGED <<nextBookId, nextMemberId, today, last, uow>>

(* return_book up to the last precondition (routes.py:414-420) *)
TxReturnCheck(t, r) ==
    /\ txns[t].pc = "idle"
    /\ LET out == return_book(Db, r, today)
       IN IF out.raised
          THEN /\ Report("Return", <<r>>, out)
               /\ txns' = txns
          ELSE /\ txns' = [txns EXCEPT ![t] = [pc |-> "checked", op |-> "Return",
                                               book |-> 0, member |-> 0, record |-> r,
                                               work |-> Some(Db)]]
               /\ last' = last
    /\ UNCHANGED <<books, members, records, nextBookId, nextMemberId, today, uow>>

(* uow.borrows.mark_returned: UPDATE borrow_records; the statement waits   *)
(* while another transaction holds the row of the record (it has updated   *)
(* it and not yet committed)                                               *)
TxReturnMark(t) ==
    /\ txns[t].pc = "checked"
    /\ txns[t].op = "Return"
    /\ ~\E o \in Txns \ {t} : /\ txns[o].pc \in {"first", "second"}
                              /\ txns[o].op = "Return"
                              /\ txns[o].record = txns[t].record
    /\ LET x == [txns[t] EXCEPT !.pc = "first",
                     !.work = Some(mark_returned(@[1], txns[t].record, today))]
       IN /\ txns' = [txns EXCEPT ![t] = x]
          /\ StoreShows(sent(Db, x))
    /\ UNCHANGED <<nextBookId, nextMemberId, today, last, uow>>

(* uow.books.increase_available_copies: the Book row is loaded here for    *)
(* the first time in this session, then UPDATE books                       *)
TxReturnIncrease(t) ==
    /\ txns[t].pc = "first"
    /\ txns[t].op = "Return"
    /\ LET w == txns[t].work[1]
           b == w.records[txns[t].record].book_id
           loaded == PutBook(w, b, books[b])
           x == [txns[t] EXCEPT !.pc = "second",
                     !.work = Some(increase_available_copies(loaded, b))]
       IN /\ txns' = [txns EXCEPT ![t] = x]
          /\ StoreShows(sent(Db, x))
    /\ UNCHANGED <<nextBookId, nextMemberId, today, last, uow>>

(* uow.commit(): the flush sends the UPDATE of the book that a return left *)
(* pending, which waits while another transaction holds the row            *)
TxCommit(t) ==
    /\ txns[t].pc = "second"
    /\ txns[t].op = "Return" =>
           ~BookRowLocked(txns, t, records[txns[t].record].book_id)
    /\ LET x == txns[t]
           out == uow_commit(Done(WithWritesOf(Db, x),
                                  IF x.op = "Borrow" THEN "borrowed" ELSE "returned",
                                  IF x.op = "Borrow" THEN Len(records) + 1 ELSE x.record))
           res == UnitOfWork(Db, out)
       IN /\ x.op = "Borrow" => Len(records) < MaxRecords
          /\ StoreShows(res.db)
          /\ Report(x.op, IF x.op = "Borrow" THEN <<x.book, x.member>> ELSE <<x.record>>,
                    res)
    /\ txns' = [txns EXCEPT ![t] = NoTransaction]
    /\ UNCHANGED <<nextBookId, nextMemberId, today, uow>>

(* the process dies with the transaction open: the store aborts it *)
TxCrash(t) ==
    /\ txns[t].pc # "idle"
    /\ StoreShows(rollback(Db, WithWritesOf(Db, txns[t])))
    /\ Report("Crash", << >>, [kind |-> txns[t].op, detail |-> txns[t].pc])
    /\ txns' = [txns EXCEPT ![t] = NoTransaction]
    /\ UNCHANGED <<nextBookId, nextMemberId, today, uow>>

(* one request in flight at a time, and crashes *)
NextCrash ==
    \/ RestCreateBook(Restock)
    \/ RestCreateMember(Restock)
    \/ \E b \in 1..MaxBooks, m \in MemberIds : TxBorrowCheck(1, b, m)
    \/ TxBorrowDecrease(1)
    \/ TxBorrowCreate(1)
    \/ \E r \in 1..MaxRecords : TxReturnCheck(1, r)
    \/ TxReturnMark(1)
    \/ TxReturnIncrease(1)
    \/ TxCommit(1)
    \/ TxCrash(1)

SpecCrash == Init /\ [][NextCrash]_vars

(* overlapping borrow requests *)
NextOverlap ==
    \/ RestCreateBook(Restock)
    \/ RestCreateMember(Restock)
    \/ \E t \in Txns :
          \/ \E b \in 1..MaxBooks, m \in MemberIds : TxBorrowCheck(t, b, m)
          \/ TxBorrowDecrease(t)
          \/ TxBorrowCreate(t)
          \/ TxCommit(t)

SpecOverlap == Init /\ [][NextOverlap]_vars

(* overlapping borrow and return requests on one book of two copies *)
NextContend ==
    LET TwoCopies == [Lending EXCEPT !.copies = {MaxCopies}, !.maxBooks = 1]
    IN \/ RestCreateBook(TwoCopies)
       \/ RestCreateMember(TwoCopies)
       \/ \E t \in Txns :
             \/ \E m \in MemberIds : TxBorrowCheck(t, 1, m)
             \/ TxBorrowDecrease(t)
             \/ TxBorrowCreate(t)
             \/ \E r \in 1..MaxRecords : TxReturnCheck(t, r)
             \/ TxReturnMark(t)
             \/ TxReturnIncrease(t)
             \/ TxCommit(t)

SpecContend == Init /\ [][NextContend]_vars

-----------------------------------------------------------------------------
(* The list routes (list_books, list_members, list_borrow_records) next to *)
(* the REST requests that fill and empty the tables.  `last` holds the      *)
(* request and the answer: args is page, page_size, the member_id and       *)
(* book_id filters, total_count and then the ids of the items; detail is   *)
(* the status filter.  Borrow records are listed unfiltered, for one book   *)
(* or for one status.                                                       *)

RestList ==
    /\ \E page \in 1..MaxPage, page_size \in 1..MaxPageSize :
          \/ LET res == list_paginated(DOMAIN books, FALSE, page, page_size)
             IN last' = [op |-> "ListBooks", kind |-> "OK", detail |-> "",
                         args |-> <<page, page_size, 0, 0, res.total_count>> \o res.items]
          \/ LET res == list_paginated(DOMAIN members, FALSE, page, page_size)
             IN last' = [op |-> "ListMembers", kind |-> "OK", detail |-> "",
                         args |-> <<page, page_size, 0, 0, res.total_count>> \o res.items]
          \/ \E book_id \in {0, 2}, status \in {"", "BORROWED"} :
                LET res == list_paginated(borrows_matching(Db, 0, book_id, status),
                                          TRUE, page, page_size)
                IN last' = [op |-> "ListBorrows", kind |-> "OK", detail |-> status,
                            args |-> <<page, page_size, 0, book_id,
                                       res.total_count>> \o res.items]
    /\ UNCHANGED <<books, members, records, nextBookId, nextMemberId, today, uow, txns>>

NextListing ==
    \/ RestCreateBook(LendingPastLimit)
    \/ \E b \in 1..LendingPastLimit.maxBooks : RestDeleteBook(b)
    \/ RestCreateMember(LendingPastLimit)
    \/ \E b \in 1..LendingPastLimit.maxBooks, m \in MemberIds :
           RestBorrow(LendingPastLimit, b, m)
    \/ \E r \in 1..LendingPastLimit.maxRecords : RestReturn(r)
    \/ RestList

SpecListing == Init /\ [][NextListing]_vars

-----------------------------------------------------------------------------
(* Claims *)

(* BORROWED records of a book in the committed tables *)
BorrowedCount(b) ==
    Cardinality({i \in DOMAIN records :
                    records[i].book_id = b /\ records[i].status = "BORROWED"})

(* C1: every stored book satisfies                                         *)
(* available_copies = total_copies - (number of its BORROWED records).     *)
C1_CopyConservation ==
    \A b \in DOMAIN books :
        books[b].available_copies = books[b].total_copies - BorrowedCount(b)

(* C2: in every committed state every book satisfies                       *)
(* 0 <= available_copies <= total_copies, whatever Borrow, Return and      *)
(* UpdateBook requests were served and through whichever entry point.      *)
C2_AvailableWithinTotal ==
    \A b \in DOMAIN books :
        /\ 0 <= books[b].available_copies
        /\ books[b].available_copies <= books[b].total_copies

(* C2 witness: after total_copies was cut below the number of copies out,  *)
(* a Return succeeded and left every copy counted available while a copy   *)
(* is still out: the next increment would pass total_copies.               *)
C2_Witness ==
    /\ last.op = "Return"
    /\ last.kind = "OK"
    /\ \E b \in DOMAIN books :
           /\ books[b].available_copies = books[b].total_copies
           /\ BorrowedCount(b) > 0

(* A request of kind op is served in this step (every handler records its *)
(* request in `last`; only the clock leaves `last` alone).                 *)
Served(op) == last'.op = op /\ today' = today

(* BORROWED records of a (book, member) pair / of a member in a table *)
PairBorrowed(rc, b, m) ==
    {i \in DOMAIN rc : rc[i].book_id = b /\ rc[i].member_id = m
                       /\ rc[i].status = "BORROWED"}

MemberBorrowed(rc, m) ==
    {i \in DOMAIN rc : rc[i].member_id = m /\ rc[i].status = "BORROWED"}

AtMostOneBorrowedPerPair(rc) ==
    \A i, j \in DOMAIN rc :
        (/\ rc[i].status = "BORROWED" /\ rc[j].status = "BORROWED"
         /\ rc[i].book_id = rc[j].book_id /\ rc[i].member_id = rc[j].member_id)
        => i = j

(* C3 as stated: at most one BORROWED record per (book, member) pair, and  *)
(* a Borrow for a pair that already has one is rejected with AlreadyExists. *)
C3_DuplicateAlwaysAlreadyExists ==
    [][/\ AtMostOneBorrowedPerPair(records')
       /\ (Served("Borrow")
           /\ PairBorrowed(records, last'.args[1], last'.args[2]) # {})
          => last'.kind = "AlreadyExists"]_vars

(* C3 amended: at most one BORROWED record per (book, member) pair; a      *)
(* Borrow for a pair that already has one is always rejected, and with     *)
(* AlreadyExists when the book has an available copy, the member is active *)
(* and the member is below the borrow limit (an earlier failing            *)
(* precondition reports its own error instead).                            *)
C3_DuplicateRejected ==
    [][/\ AtMostOneBorrowedPerPair(records')
       /\ (Served("Borrow")
           /\ PairBorrowed(records, last'.args[1], last'.args[2]) # {})
          => LET b == last'.args[1]
                 m == last'.args[2]
             IN /\ last'.kind # "OK"
                /\ records' = records
                /\ (/\ books[b].available_copies > 0
                    /\ members[m].is_active = Some(TRUE)
                    /\ Cardinality(MemberBorrowed(records, m)) < max_books_per_member)
                   => last'.kind = "AlreadyExists"]_vars

(* C3 witness: a Borrow for a pair holding a BORROWED record was answered  *)
(* AlreadyExists.                                                          *)
C3_Witness ==
    /\ last.op = "Borrow"
    /\ last.kind = "AlreadyExists"
    /\ PairBorrowed(records, last.args[1], last.args[2]) # {}

(* C4: no member ever holds more than max_books_per_member BORROWED        *)
(* records, and a Borrow is accepted only while the member's count of      *)
(* BORROWED records is strictly below the limit.                           *)
C4_BorrowLimit ==
    [][/\ \A m \in MemberIds :
              Cardinality(MemberBorrowed(records', m)) <= max_books_per_member
       /\ (Served("Borrow") /\ last'.kind = "OK")
          => Cardinality(MemberBorrowed(records, last'.args[2]))
                 < max_books_per_member]_vars

(* C4 witness: a member holding exactly the limit was refused a Borrow of  *)
(* an available book that the member does not hold.                        *)
C4_Witness ==
    /\ last.op = "Borrow"
    /\ last.detail = "borrow limit reached"
    /\ Cardinality(MemberBorrowed(records, last.args[2])) = max_books_per_member
    /\ PairBorrowed(records, last.args[1], last.args[2]) = {}

(* C5 as stated: a Borrow for a member whose is_active is false is always  *)
(* rejected with FailedPrecondition (member not active).                   *)
C5_InactiveAlwaysNotActive ==
    [][(/\ Served("Borrow")
        /\ last'.args[2] \in DOMAIN members
        /\ members[last'.args[2]].is_active = Some(FALSE))
       => (last'.kind = "FailedPrecondition"
           /\ last'.detail = "member not active")]_vars

(* C5 amended: a Borrow for a member whose is_active is false is always    *)
(* rejected, with FailedPrecondition (member not active) when the book     *)
(* exists and has an available copy (otherwise with the error of the       *)
(* failing book precondition), so the set of BORROWED records of a member  *)
(* never grows while that member is inactive.                              *)
C5_InactiveNeverGains ==
    [][\A m \in DOMAIN members :
           members[m].is_active = Some(FALSE)
           => /\ MemberBorrowed(records', m) \subseteq MemberBorrowed(records, m)
              /\ (Served("Borrow") /\ last'.args[2] = m)
                 => LET b == last'.args[1]
                    IN /\ last'.kind # "OK"
                       /\ (b \in DOMAIN books /\ books[b].available_copies > 0)
                          => (last'.kind = "FailedPrecondition"
                              /\ last'.detail = "member not active")]_vars

(* C5 witness: an inactive member asked for an available book and was      *)
(* refused as not active.                                                  *)
C5_Witness ==
    /\ last.op = "Borrow"
    /\ last.detail = "member not active"
    /\ members[last.args[2]].is_active = Some(FALSE)
    /\ books[last.args[1]].available_copies > 0

(* C6: the book_id and member_id of every BorrowRecord, BORROWED or        *)
(* RETURNED, identify a stored book and a stored member in every reachable *)
(* state, whichever Delete requests were attempted.                        *)
C6_ReferencedNeverRemoved ==
    \A i \in DOMAIN records :
        /\ records[i].book_id \in DOMAIN books
        /\ records[i].member_id \in DOMAIN members

(* C6 witness: a Delete of a book whose records are all RETURNED was       *)
(* attempted and the book is still stored.                                 *)
C6_Witness ==
    /\ last.op = "DeleteBook"
    /\ last.args[1] \in DOMAIN books
    /\ \E i \in DOMAIN records : records[i].book_id = last.args[1]
    /\ \A i \in DOMAIN records :
           records[i].book_id = last.args[1] => records[i].status = "RETURNED"

(* C7: once a BorrowRecord has status RETURNED it keeps status RETURNED in *)
(* every later state.                                                      *)
C7_ReturnedStaysReturned ==
    [][\A i \in DOMAIN records :
           records[i].status = "RETURNED"
           => (i \in DOMAIN records' /\ records'[i].status = "RETURNED")]_vars

(* C7 witness: a Return was requested for a record that is RETURNED *)
C7_Witness ==
    /\ last.op = "Return"
    /\ last.detail = "already returned"
    /\ records[last.args[1]].status = "RETURNED"

(* C8: Borrow reports the error of the first failing precondition in the   *)
(* order book exists, book available, member exists, member active, member *)
(* under the limit, no BORROWED record for the pair.                       *)
C8_FirstFailureWins ==
    [][Served("Borrow")
       => LET b == last'.args[1]
              m == last'.args[2]
              p1 == b \in DOMAIN books
              p2 == books[b].available_copies > 0
              p3 == m \in DOMAIN members
              p4 == members[m].is_active = Some(TRUE)
              p5 == Cardinality(MemberBorrowed(records, m)) < max_books_per_member
              p6 == PairBorrowed(records, b, m) = {}
              answer == <<last'.kind, last'.detail>>
          IN /\ ~p1 => answer = <<"NotFound", "book not found">>
             /\ (p1 /\ ~p2) => answer = <<"FailedPrecondition", "book not available">>
             /\ (p1 /\ p2 /\ ~p3) => answer = <<"NotFound", "member not found">>
             /\ (p1 /\ p2 /\ p3 /\ ~p4)
                => answer = <<"FailedPrecondition", "member not active">>
             /\ (p1 /\ p2 /\ p3 /\ p4 /\ ~p5)
                => answer = <<"FailedPrecondition", "borrow limit reached">>
             /\ (p1 /\ p2 /\ p3 /\ p4 /\ p5 /\ ~p6)
                => answer = <<"AlreadyExists", "duplicate borrow">>
             /\ (p1 /\ p2 /\ p3 /\ p4 /\ p5 /\ p6) => last'.kind = "OK"]_vars

(* C8 witness: an unavailable book requested for a member that does not    *)
(* exist was answered "book not available".                                *)
C8_Witness ==
    /\ last.op = "Borrow"
    /\ last.args[1] \in DOMAIN books
    /\ books[last.args[1]].available_copies = 0
    /\ last.args[2] \notin DOMAIN members
    /\ last.kind = "FailedPrecondition"
    /\ last.detail = "book not available"

C10_RejectedLeavesStore ==
    [][(/\ Served(last'.op)
        /\ last'.op \in {"Borrow", "Return", "DeleteBook", "DeleteMember",
                         "UpdateBook", "UpdateMember"}
        /\ last'.kind \in {"NotFound", "FailedPrecondition", "AlreadyExists"})
       => UNCHANGED <<books, members, records>>]_vars

(* C10 witness: an UpdateMember that asked for the e-mail address of       *)
(* another member was answered AlreadyExists, and the member kept its      *)
(* name and address.                                                       *)
C10_Witness ==
    /\ last.op = "UpdateMember"
    /\ last.kind = "AlreadyExists"
    /\ last.args[1] \in DOMAIN members
    /\ members[last.args[1]].name = "n1"
    /\ \E o \in DOMAIN members : o # last.args[1]

C12_ReturnClamped ==
    [][(/\ Served("Return")
        /\ last'.args[1] \in DOMAIN records
        /\ records[last'.args[1]].status = "BORROWED")
       => LET r == last'.args[1]
              b == records[r].book_id
          IN /\ last'.kind = "OK"
             /\ records' = [records EXCEPT ![r].status = "RETURNED",
                                           ![r].return_date = Some(today)]
             /\ books' = [books EXCEPT ![b].available_copies =
                                           Min(@ + 1, books[b].total_copies)]
             /\ members' = members]_vars

(* Borrow records, of any status, that reference a book or a member *)
RecordsOfBook(rc, b) == {i \in DOMAIN rc : rc[i].book_id = b}

RecordsOfMember(rc, m) == {i \in DOMAIN rc : rc[i].member_id = m}

(* C13: DeleteBook on a stored book that some borrow record references,    *)
(* BORROWED or only RETURNED, is answered FailedPrecondition and leaves    *)
(* books, members and records unchanged.                                   *)
C13_HistoryBlocksDeleteBook ==
    [][(/\ Served("DeleteBook")
        /\ last'.args[1] \in DOMAIN books
        /\ RecordsOfBook(records, last'.args[1]) # {})
       => /\ last'.kind = "FailedPrecondition"
          /\ UNCHANGED <<books, members, records>>]_vars

(* C14: DeleteMember on a stored member without BORROWED records but with  *)
(* at least one RETURNED record keeps the member and every record, sets    *)
(* the member's is_active to false and reports "deactivated".              *)
C14_HistoryDeactivatesMember ==
    [][(/\ Served("DeleteMember")
        /\ last'.args[1] \in DOMAIN members
        /\ MemberBorrowed(records, last'.args[1]) = {}
        /\ RecordsOfMember(records, last'.args[1]) # {})
       => LET m == last'.args[1]
          IN /\ last'.kind = "OK"
             /\ last'.detail = "deactivated"
             /\ members' = [members EXCEPT ![m].is_active = Some(FALSE)]
             /\ UNCHANGED <<books, records>>]_vars

(* C15: DeleteMember on a member that holds a BORROWED record is answered  *)
(* FailedPrecondition; the member is neither removed nor deactivated, and  *)
(* books, members and records stay as they were.                           *)
C15_ActiveBorrowBlocksDeleteMember ==
    [][(/\ Served("DeleteMember")
        /\ last'.args[1] \in DOMAIN members
        /\ MemberBorrowed(records, last'.args[1]) # {})
       => /\ last'.kind = "FailedPrecondition"
          /\ last'.args[1] \in DOMAIN members'
          /\ members'[last'.args[1]].is_active = members[last'.args[1]].is_active
          /\ UNCHANGED <<books, members, records>>]_vars

(* C15 witness: DeleteMember was refused for an active member that holds a *)
(* BORROWED record.                                                        *)
C15_Witness ==
    /\ last.op = "DeleteMember"
    /\ last.kind = "FailedPrecondition"
    /\ last.args[1] \in DOMAIN members
    /\ members[last.args[1]].is_active = Some(TRUE)
    /\ MemberBorrowed(records, last.args[1]) # {}

(* C16: DeleteBook or DeleteMember on a stored entity that no borrow       *)
(* record references succeeds and removes exactly that entity; an id that  *)
(* was handed out and is no longer stored never comes back, and a Get of   *)
(* an id that is not stored is answered NotFound.                          *)
C16_UnreferencedIsRemoved ==
    [][/\ (/\ Served("DeleteBook")
           /\ last'.args[1] \in DOMAIN books
           /\ RecordsOfBook(records, last'.args[1]) = {})
          => /\ last'.kind = "OK"
             /\ last'.detail = "deleted"
             /\ DOMAIN books' = DOMAIN books \ {last'.args[1]}
             /\ \A x \in DOMAIN books' : books'[x] = books[x]
             /\ UNCHANGED <<members, records>>
       /\ (/\ Served("DeleteMember")
           /\ last'.args[1] \in DOMAIN members
           /\ RecordsOfMember(records, last'.args[1]) = {})
          => /\ last'.kind = "OK"
             /\ last'.detail = "deleted"
             /\ DOMAIN members' = DOMAIN members \ {last'.args[1]}
             /\ \A x \in DOMAIN members' : members'[x] = members[x]
             /\ UNCHANGED <<books, records>>
       /\ \A b \in 1..(nextBookId - 1) :
              b \notin DOMAIN books => b \notin DOMAIN books'
       /\ \A m \in 1..(nextMemberId - 1) :
              m \notin DOMAIN members => m \notin DOMAIN members'
       /\ Served("GetBook")
          => (last'.kind = "NotFound" <=> last'.args[1] \notin DOMAIN books)
       /\ Served("GetMember")
          => (last'.kind = "NotFound" <=> last'.args[1] \notin DOMAIN members)]_vars

(* C16 witness: a Get of a member id that had been handed out was answered *)
(* NotFound, and a book id that had been handed out is gone as well.       *)
C16_Witness ==
    /\ last.op = "GetMember"
    /\ last.kind = "NotFound"
    /\ last.args[1] < nextMemberId
    /\ nextBookId > 1
    /\ 1 \notin DOMAIN books

(* RETURNED records of a member *)
MemberReturned(rc, m) ==
    {i \in DOMAIN rc : rc[i].member_id = m /\ rc[i].status = "RETURNED"}

(* C17: a Borrow of a stored book for a member that holds exactly          *)
(* max_books_per_member BORROWED records is answered FailedPrecondition    *)
(* and adds no record; once the member has returned a book and holds one   *)
(* record fewer than the limit, a Borrow of a book with an available copy  *)
(* that the member does not hold succeeds and brings the member back to    *)
(* the limit.                                                              *)
C17_LimitBoundary ==
    [][Served("Borrow")
       => LET b == last'.args[1]
              m == last'.args[2]
          IN /\ (/\ b \in DOMAIN books
                 /\ m \in DOMAIN members
                 /\ Cardinality(MemberBorrowed(records, m)) = max_books_per_member)
                => /\ last'.kind = "FailedPrecondition"
                   /\ records' = records
             /\ (/\ b \in DOMAIN books
                 /\ books[b].available_copies > 0
                 /\ m \in DOMAIN members
                 /\ members[m].is_active = Some(TRUE)
                 /\ MemberReturned(records, m) # {}
                 /\ Cardinality(MemberBorrowed(records, m)) = max_books_per_member - 1
                 /\ PairBorrowed(records, b, m) = {})
                => /\ last'.kind = "OK"
                   /\ Cardinality(MemberBorrowed(records', m)) = max_books_per_member]_vars

(* C17 witness: a member that returned a book and borrowed again up to the *)
(* limit was refused one more book that has an available copy.             *)
C17_Witness ==
    /\ last.op = "Borrow"
    /\ last.kind = "FailedPrecondition"
    /\ last.detail = "borrow limit reached"
    /\ Cardinality(MemberBorrowed(records, last.args[2])) = max_books_per_member
    /\ \E i \in MemberReturned(records, last.args[2]) :
           \E j \in MemberBorrowed(records, last.args[2]) : i < j

(* RETURNED records of a book *)
BookReturned(rc, b) ==
    {i \in DOMAIN rc : rc[i].book_id = b /\ rc[i].status = "RETURNED"}

(* C18: a Borrow of a stored book with available_copies = 0 is answered    *)
(* FailedPrecondition, whoever the member, and changes nothing; a          *)
(* successful Return leaves its book with an available copy; and a Borrow  *)
(* of a book that has a RETURNED record and an available copy, by an       *)
(* active member under the limit that does not hold the book, succeeds.    *)
C18_AvailabilityBoundary ==
    [][/\ Served("Borrow")
          => LET b == last'.args[1]
                 m == last'.args[2]
             IN /\ (b \in DOMAIN books /\ books[b].available_copies = 0)
                   => /\ last'.kind = "FailedPrecondition"
                      /\ last'.detail = "book not available"
                      /\ UNCHANGED <<books, members, records>>
                /\ (/\ b \in DOMAIN books
                    /\ BookReturned(records, b) # {}
                    /\ books[b].available_copies > 0
                    /\ m \in DOMAIN members
                    /\ members[m].is_active = Some(TRUE)
                    /\ Cardinality(MemberBorrowed(records, m)) < max_books_per_member
                    /\ PairBorrowed(records, b, m) = {})
                   => last'.kind = "OK"
       /\ (Served("Return") /\ last'.kind = "OK")
          => books'[records[last'.args[1]].book_id].available_copies > 0]_vars

(* C18 witness: the only copy of a book was borrowed, returned and         *)
(* borrowed again, so the book is back at available_copies = 0.            *)
C18_Witness ==
    /\ last.op = "Borrow"
    /\ last.kind = "OK"
    /\ last.args[1] \in DOMAIN books
    /\ books[last.args[1]].total_copies = 1
    /\ books[last.args[1]].available_copies = 0
    /\ \E i \in BookReturned(records, last.args[1]) :
           /\ records[Len(records)].book_id = last.args[1]
           /\ records[Len(records)].status = "BORROWED"
           /\ i < Len(records)

(* A Borrow through the REST or the gRPC front end, and a Return likewise, *)
(* as functions of the committed tables                                    *)
BorrowVia(fe, db, b, m) ==
    IF fe = "rest" THEN UnitOfWork(db, borrow_book(db, b, m, today))
    ELSE get_db_session(db, BorrowBook(db, b, m, today))

ReturnVia(fe, db, r) ==
    IF fe = "rest" THEN UnitOfWork(db, return_book(db, r, today))
    ELSE get_db_session(db, ReturnBook(db, r, today))

FrontEnds == {"rest", "grpc"}

(* C19: in every reachable state, a Borrow that succeeds followed by the   *)
(* Return of the record it created succeeds and leaves the book's          *)
(* available_copies and the member's number of BORROWED records at their   *)
(* values before the Borrow, whichever front end serves either call.       *)
C19_BorrowThenReturnRestores ==
    \A b \in DOMAIN books, m \in DOMAIN members, f1 \in FrontEnds, f2 \in FrontEnds :
        LET r1 == BorrowVia(f1, Db, b, m)
            r2 == ReturnVia(f2, r1.db, Len(r1.db.records))
        IN r1.kind = "OK"
           => /\ r1.db.books[b].available_copies = books[b].available_copies - 1
              /\ r2.kind = "OK"
              /\ r2.db.books[b].available_copies = books[b].available_copies
              /\ Cardinality(MemberBorrowed(r2.db.records, m))
                     = Cardinality(MemberBorrowed(records, m))
              /\ r2.db.members = members

(* C19 witness: the newest record was borrowed and then returned, and its  *)
(* book has all its copies available again while another record of the     *)
(* member is still BORROWED.                                               *)
C19_Witness ==
    /\ last.op = "Return"
    /\ last.kind = "OK"
    /\ last.args[1] = Len(records)
    /\ records[Len(records)].status = "RETURNED"
    /\ LET b == records[Len(records)].book_id
           m == records[Len(records)].member_id
       IN /\ books[b].available_copies = books[b].total_copies
          /\ Cardinality(MemberBorrowed(records, m)) = 1

(* An UpdateBook that supplies only total_copies = n, through either front *)
(* end, as a function of the committed tables                              *)
UpdateTotalVia(fe, db, b, n) ==
    IF fe = "rest" THEN UnitOfWork(db, update_book(db, b, UNSET, Some(n)))
    ELSE get_db_session(db, UpdateBook(db, b, "", n))

(* Totals that an update may ask for: up to twice the largest stock *)
NewTotals == 1..(2 * MaxCopies)

(* C20: in every reachable state, an UpdateBook of a stored book that      *)
(* supplies total_copies = n succeeds, however many copies are borrowed,   *)
(* sets total_copies to n and available_copies to                          *)
(* max(0, available_copies + (n - total_copies)), and changes nothing      *)
(* else; raising 2 to 4 with no copy available yields 2 available copies.  *)
C20_UpdateTotalCopies ==
    \A b \in DOMAIN books, n \in NewTotals, fe \in FrontEnds :
        LET r == UpdateTotalVia(fe, Db, b, n)
            old == books[b]
            shifted == old.available_copies + (n - old.total_copies)
        IN /\ r.kind = "OK"
           /\ DOMAIN r.db.books = DOMAIN books
           /\ r.db.books[b].total_copies = n
           /\ r.db.books[b].available_copies = (IF shifted >= 0 THEN shifted ELSE 0)
           /\ r.db.books[b].isbn = old.isbn
           /\ \A x \in DOMAIN books \ {b} : r.db.books[x] = books[x]
           /\ r.db.members = members
           /\ r.db.records = records
           /\ (old.total_copies = 2 /\ old.available_copies = 0 /\ n = 4)
              => r.db.books[b].available_copies = 2

(* C20 witness: an UpdateBook lowered total_copies below the number of     *)
(* copies on loan and was accepted, leaving no copy available.             *)
C20_Witness ==
    /\ last.op = "UpdateBook"
    /\ last.kind = "OK"
    /\ last.args[1] \in DOMAIN books
    /\ books[last.args[1]].available_copies = 0
    /\ BorrowedCount(last.args[1]) > books[last.args[1]].total_copies

CreateBookVia(fe, db, isbn) ==
    IF fe = "rest" THEN UnitOfWork(db, create_book(db, nextBookId, isbn, 1))
    ELSE get_db_session(db, CreateBook(db, nextBookId, isbn, 1))

UpdateIsbnVia(fe, db, b, isbn) ==
    IF fe = "rest" THEN UnitOfWork(db, update_book(db, b, isbn, None))
    ELSE get_db_session(db, UpdateBook(db, b, isbn, 0))

(* Non-empty ISBNs that requests carry *)
RealIsbns == Isbns \ {""}

(* Books other than b that carry the ISBN *)
OtherBooksWithIsbn(b, isbn) == {x \in DOMAIN books \ {b} : books[x].isbn = isbn}

(* C22: in every reachable state no two stored books share a non-empty     *)
(* ISBN; CreateBook with an ISBN that a stored book carries, and           *)
(* UpdateBook to an ISBN that another book carries, are answered           *)
(* AlreadyExists and leave the tables as they are; UpdateBook with the     *)
(* book's own ISBN is accepted.                                            *)
C22_IsbnUnique ==
    /\ \A x \in DOMAIN books, y \in DOMAIN books :
           (x # y /\ books[x].isbn \in RealIsbns) => books[x].isbn # books[y].isbn
    /\ \A isbn \in RealIsbns, fe \in FrontEnds :
           /\ OtherBooksWithIsbn(0, isbn) # {}
              => LET r == CreateBookVia(fe, Db, isbn)
                 IN r.kind = "AlreadyExists" /\ r.db = Db
           /\ \A b \in DOMAIN books :
                  LET r == UpdateIsbnVia(fe, Db, b, isbn)
                  IN /\ OtherBooksWithIsbn(b, isbn) # {}
                        => (r.kind = "AlreadyExists" /\ r.db = Db)
                     /\ books[b].isbn = isbn
                        => (r.kind = "OK" /\ r.db = Db)

(* C22 witness: an UpdateBook asked for the ISBN of another book and was   *)
(* answered AlreadyExists; the two books still differ in their ISBN.       *)
C22_Witness ==
    /\ last.op = "UpdateBook"
    /\ last.kind = "AlreadyExists"
    /\ last.args[1] \in DOMAIN books
    /\ books[last.args[1]].isbn \notin RealIsbns
    /\ \E x \in DOMAIN books : x # last.args[1] /\ books[x].isbn \in RealIsbns

(* CreateMember with an e-mail address, and UpdateMember that supplies an  *)
(* e-mail address (and a new name when `rename` is set, is_active left as  *)
(* it is), through either front end, as functions of the committed tables  *)
CreateMemberVia(fe, db, email) ==
    IF fe = "rest" THEN UnitOfWork(db, create_member(db, nextMemberId, "n1", email))
    ELSE get_db_session(db, CreateMember(db, nextMemberId, "n1", email))

UpdateEmailVia(fe, db, m, rename, email) ==
    IF fe = "rest"
    THEN UnitOfWork(db, update_member(db, m, IF rename THEN "n2" ELSE UNSET,
                                      email, None))
    ELSE get_db_session(db, UpdateMember(db, m, IF rename THEN "n2" ELSE "",
                                         email, Truthy(db.members[m].is_active)))

(* Members other than m that have the e-mail address *)
OtherMembersWithEmail(m, email) ==
    {x \in DOMAIN members \ {m} : members[x].email = email}

(* C23: in every reachable state no two stored members share an e-mail     *)
(* address; CreateMember with an address that a stored member has, and     *)
(* UpdateMember to an address that another member has, are answered        *)
(* AlreadyExists and leave the tables as they are, also when the update    *)
(* carries a new name; UpdateMember with the member's own address is       *)
(* accepted and keeps the address.                                         *)
C23_EmailUnique ==
    /\ \A x \in DOMAIN members, y \in DOMAIN members :
           x # y => members[x].email # members[y].email
    /\ \A email \in Emails, fe \in FrontEnds :
           /\ OtherMembersWithEmail(0, email) # {}
              => LET r == CreateMemberVia(fe, Db, email)
                 IN r.kind = "AlreadyExists" /\ r.db = Db
           /\ \A m \in DOMAIN members, rename \in BOOLEAN :
                  LET r == UpdateEmailVia(fe, Db, m, rename, email)
                  IN /\ OtherMembersWithEmail(m, email) # {}
                        => (r.kind = "AlreadyExists" /\ r.db = Db)
                     /\ members[m].email = email
                        => /\ r.kind = "OK"
                           /\ r.db.members[m].email = email
                           /\ DOMAIN r.db.members = DOMAIN members

(* C23 witness: with two members stored under different addresses, a       *)
(* CreateMember was answered AlreadyExists.                                *)
C23_Witness ==
    /\ last.op = "CreateMember"
    /\ last.kind = "AlreadyExists"
    /\ Cardinality(DOMAIN members) = 2
    /\ \A x \in DOMAIN members, y \in DOMAIN members :
           x # y => members[x].email # members[y].email

(* UpdateMember that supplies only a new name, through either front end,   *)
(* as a function of the committed tables; the gRPC request message reads   *)
(* false for the is_active it does not carry                               *)
UpdateNameVia(fe, db, m) ==
    IF fe = "rest" THEN UnitOfWork(db, update_member(db, m, "n2", UNSET, None))
    ELSE get_db_session(db, UpdateMember(db, m, "n2", "", FALSE))

(* C24: in every reachable state an UpdateMember that supplies only a name *)
(* succeeds, sets the name and leaves the member's is_active as it was, so *)
(* an active member stays active.                                          *)
C24_UnsetIsActiveKept ==
    \A m \in DOMAIN members, fe \in FrontEnds :
        LET r == UpdateNameVia(fe, Db, m)
        IN /\ r.kind = "OK"
           /\ r.db.members[m].name = "n2"
           /\ r.db.members[m].is_active = members[m].is_active

-----------------------------------------------------------------------------
(* Unit of work: exits and accessors *)

(* C25: when a failure is raised inside a unit-of-work block, the step     *)
(* that leaves the block changes no committed row and leaves no pending    *)
(* row in the session of the unit of work, so a later unit of work (on     *)
(* the same session or on a new one) reads exactly the committed store;    *)
(* and committed rows change only in a commit step.                        *)
C25_FailureRollsBack ==
    [][/\ uow.phase = "entered" /\ uow'.phase = "idle" /\ last'.kind = "Failure" =>
            /\ UNCHANGED <<books, members, records>>
            /\ Pending(uow') = NoPending
            /\ SessionView(uow', Db') = Db
       /\ <<books, members, records>>' # <<books, members, records>> =>
            last'.detail = "commit"]_vars

(* a block that wrote rows through its accessors has just been left by a   *)
(* failure, on either kind of session, and nothing of it is stored         *)
C25_Witness ==
    /\ last.op = "UnitOfWork"
    /\ last.detail = "raise"
    /\ last.args = <<2>>
    /\ ~uow.owns
    /\ books = << >>
    /\ members = << >>
    /\ nextBookId = 2
    /\ nextMemberId = 2

(* C26: a unit of work that leaves its block normally without commit       *)
(* leaves no pending row in its session and changes no committed row,      *)
(* whether it owns the session or was constructed with an existing one.    *)
C26_UncommittedDropped ==
    [][uow.phase = "entered" /\ uow'.phase = "idle" /\ last'.kind = "OK" =>
            /\ UNCHANGED <<books, members, records>>
            /\ Pending(uow') = NoPending]_vars

(* C27: each accessor of a unit of work is constructed at most once and    *)
(* every constructed accessor is bound to the session of the unit of work. *)
C27_AccessorsOncePerSession ==
    \A kind \in AccessorKinds :
        /\ uow.made[kind] <= 1
        /\ uow[kind] # "none" => uow[kind] = uow.session /\ uow.session # "none"

(* all three accessors exist and one of them has just been accessed again  *)
C27_Witness ==
    /\ last.detail = "same accessor"
    /\ \A kind \in AccessorKinds : uow[kind] = uow.session /\ uow.made[kind] = 1

-----------------------------------------------------------------------------
(* Transactions: crashes and overlap *)

(* C28: with one Borrow or Return in flight, statement by statement, and   *)
(* the process crashing at any point, what the store shows after every     *)
(* step accounts for every copy (each BORROWED record with its decrement,  *)
(* each RETURNED record with its increment), and a crash changes nothing   *)
(* in the store.                                                           *)
C28_TwoWritesAllOrNothing ==
    [][/\ (\A b \in DOMAIN books :
            books[b].available_copies + BorrowedCount(b) = books[b].total_copies)'
       /\ last'.op = "Crash" /\ txns' # txns => UNCHANGED <<books, members, records>>]_vars

(* a Return crashed between marking the record and putting the copy back,  *)
(* and the record is still BORROWED with the copy still out                *)
C28_Witness ==
    /\ last.op = "Crash"
    /\ last.kind = "Return"
    /\ last.detail = "first"
    /\ \E r \in RecordIds(Db) : /\ records[r].status = "BORROWED"
                                /\ books[records[r].book_id].available_copies = 0

(* C29: with overlapping Borrow transactions of different members the     *)
(* number of members that hold a BORROWED record of a book never exceeds   *)
(* the book's total_copies (at most one of two requests for the last copy  *)
(* commits its record).                                                    *)
C29_LastCopyLentOnce ==
    \A b \in DOMAIN books :
        Cardinality({m \in DOMAIN members : PairBorrowed(records, b, m) # {}})
            <= books[b].total_copies

-----------------------------------------------------------------------------
(* The two front ends side by side *)

(* C30: in every reachable state, each Borrow, Return, DeleteBook and      *)
(* DeleteMember request (the requests that carry ids only) leaves the same *)
(* tables and reports the same error kind through the REST routes as       *)
(* through the gRPC servicer.                                              *)
C30_FrontEndsAgree ==
    LET SameOutcome(r1, r2) == r1.db = r2.db /\ r1.kind = r2.kind
    IN /\ \A b \in 1..MaxBooks, m \in MemberIds :
              SameOutcome(BorrowVia("rest", Db, b, m), BorrowVia("grpc", Db, b, m))
       /\ \A r \in 1..MaxRecords :
              SameOutcome(ReturnVia("rest", Db, r), ReturnVia("grpc", Db, r))
       /\ \A b \in 1..MaxBooks :
              SameOutcome(UnitOfWork(Db, delete_book(Db, b)),
                          get_db_session(Db, DeleteBook(Db, b)))
       /\ \A m \in MemberIds :
              SameOutcome(UnitOfWork(Db, delete_member(Db, m)),
                          get_db_session(Db, DeleteMember(Db, m)))

-----------------------------------------------------------------------------
(* Borrow records over time *)

(* C31: in every step the borrow records only grow, and by one record made *)
(* BORROWED by a successful Borrow for its book and member; a stored       *)
(* record changes only in a successful Return of that record, from         *)
(* BORROWED, in status and return_date and nothing else; no step removes a *)
(* record.                                                                 *)
C31_RecordLifecycle ==
    [][/\ Len(records') >= Len(records)
       /\ Len(records') > Len(records) =>
              /\ Served("Borrow")
              /\ last'.kind = "OK"
              /\ Len(records') = Len(records) + 1
              /\ records'[Len(records')].status = "BORROWED"
              /\ records'[Len(records')].book_id = last'.args[1]
              /\ records'[Len(records')].member_id = last'.args[2]
       /\ \A i \in DOMAIN records :
              \/ records'[i] = records[i]
              \/ /\ Served("Return")
                 /\ last'.kind = "OK"
                 /\ last'.args = <<i>>
                 /\ records[i].status = "BORROWED"
                 /\ records'[i] = [records[i] EXCEPT !.status = "RETURNED",
                                                     !.return_date = Some(today)]]_vars

(* a member whose record was returned on a later day has been the subject  *)
(* of a Delete, and the record is still there                              *)
C31_Witness ==
    /\ last.op = "DeleteMember"
    /\ \E i \in DOMAIN records : /\ records[i].member_id = last.args[1]
                                 /\ records[i].status = "RETURNED"
                                 /\ records[i].return_date = Some(1)
                                 /\ records[i].borrow_date = 0

-----------------------------------------------------------------------------
(* Listings *)

(* C32: in every reachable state and for every page >= 1 and page_size >= 1 *)
(* a listing of the books, of the members (ascending ids) or of the borrow  *)
(* records that match the filters (descending ids) reports as total_count   *)
(* the number of matching rows and returns exactly the rows ranked          *)
(* (page-1)*page_size+1 .. page*page_size in that order; over the pages     *)
(* 1..total_pages every matching row appears exactly once.                  *)
C32_PagesPartitionTheListing ==
    LET Ranked(ids, descending, id) ==
            1 + Cardinality({y \in ids : IF descending THEN y > id ELSE y < id})
        Right(ids, descending) ==
            \A page_size \in 1..MaxPageSize :
                /\ \A page \in 1..MaxPage :
                      LET res == list_paginated(ids, descending, page, page_size)
                          lo == (page - 1) * page_size + 1
                          hi == page * page_size
                      IN /\ res.total_count = Cardinality(ids)
                         /\ Len(res.items) =
                                Cardinality({x \in ids : Ranked(ids, descending, x) \in lo..hi})
                         /\ \A k \in DOMAIN res.items :
                                /\ res.items[k] \in ids
                                /\ Ranked(ids, descending, res.items[k]) = lo + k - 1
                /\ LET pages == list_paginated(ids, descending, 1, page_size).total_pages
                   IN \A x \in ids :
                          Cardinality({<<p, k>> \in (1..pages) \X (1..page_size) :
                              LET items == list_paginated(ids, descending, p, page_size).items
                              IN k <= Len(items) /\ items[k] = x}) = 1
    IN /\ Right(DOMAIN books, FALSE)
       /\ Right(DOMAIN members, FALSE)
       /\ \A member_id \in {0} \cup MemberIds, book_id \in 0..LendingPastLimit.maxBooks,
             status \in {"", "BORROWED", "RETURNED"} :
              Right(borrows_matching(Db, member_id, book_id, status), TRUE)

(* the second page of size 1 of the borrow records was listed: of three    *)
(* records it holds record 2 alone, and a book was deleted before, so the  *)
(* book ids have a gap                                                     *)
C32_Witness ==
    /\ last.op = "ListBorrows"
    /\ last.args = <<2, 1, 0, 0, 3, 2>>
    /\ Len(records) = 3
    /\ \E b \in DOMAIN books : b > 1 /\ (b - 1) \notin DOMAIN books

(* C33: for every listing of a reachable state, and for every total_count  *)
(* up to MaxPage * MaxPageSize with every page and page_size, total_pages   *)
(* is the ceiling of total_count / page_size (the least number of pages of  *)
(* page_size rows that hold total_count rows), has_next holds exactly when  *)
(* page < total_pages, which is when rows remain after this page, and       *)
(* has_previous exactly when page > 1.                                      *)
C33_DerivedFields ==
    LET Right(res) ==
            /\ res.total_pages * res.page_size >= res.total_count
            /\ (res.total_pages - 1) * res.page_size < res.total_count
            /\ res.has_next <=> res.page < res.total_pages
            /\ res.has_next <=> res.total_count > res.page * res.page_size
            /\ res.has_previous <=> res.page > 1
    IN \A page \in 1..MaxPage, page_size \in 1..MaxPageSize :
          /\ Right(list_paginated(DOMAIN books, FALSE, page, page_size))
          /\ Right(list_paginated(DOMAIN members, FALSE, page, page_size))
          /\ \A status \in {"", "BORROWED", "RETURNED"} :
                 Right(list_paginated(borrows_matching(Db, 0, 0, status), TRUE,
                                      page, page_size))
          /\ \A total_count \in 0..(MaxPage * MaxPageSize) :
                 Right(PaginatedResult(<< >>, total_count, page, page_size))

(* the second of three pages of books was listed: it has a next and a      *)
(* previous page                                                           *)
C33_Witness ==
    /\ last.op = "ListBooks"
    /\ last.args = <<2, 1, 0, 0, 3, 2>>
    /\ DOMAIN books = {1, 2, 3}

-----------------------------------------------------------------------------
(* Creating books *)

(* C34: in every reachable state a create request through either front    *)
(* end that succeeds stores one new book, with the supplied total_copies   *)
(* when it is >= 1 and with 1 when none is supplied, and with              *)
(* available_copies equal to total_copies; a request with total_copies     *)
(* <= 0 either stores nothing (REST: validation error) or stores a book    *)
(* with 1 copy (gRPC); a request that fails stores nothing.                *)
C34_NewBookFullyStocked ==
    LET Create(fe, n) ==
            IF fe = "rest"
            THEN IF BookCreate(n) = None
                 THEN [db |-> Db, kind |-> "ValidationError"]
                 ELSE UnitOfWork(Db, create_book(Db, nextBookId, NULL_ISBN,
                                                 BookCreate(n)[1]))
            ELSE get_db_session(Db, CreateBook(Db, nextBookId, "",
                                               IF n = None THEN 0 ELSE n[1]))
    IN \A fe \in FrontEnds, n \in {None} \cup {Some(k) : k \in (-1)..MaxCopies} :
          LET r == Create(fe, n)
          IN /\ r.kind # "OK" => r.db = Db
             /\ r.kind = "OK" =>
                   /\ DOMAIN r.db.books = DOMAIN books \cup {nextBookId}
                   /\ r.db.books[nextBookId].available_copies =
                          r.db.books[nextBookId].total_copies
                   /\ r.db.books[nextBookId].total_copies =
                          IF n = None THEN 1
                          ELSE IF n[1] >= 1 THEN n[1] ELSE 1
             /\ (fe = "rest" /\ n # None /\ n[1] <= 0) => r.kind = "ValidationError"
             /\ (fe = "grpc" \/ n = None \/ n[1] >= 1) => r.kind = "OK"

(* a book has just been created with more than one copy, all available *)
C34_Witness ==
    /\ last.op = "CreateBook"
    /\ last.kind = "OK"
    /\ (nextBookId - 1) \in DOMAIN books
    /\ books[nextBookId - 1].total_copies = 2
    /\ books[nextBookId - 1].available_copies = 2

(* C35: in every state a REST create request with total_copies above      *)
(* 10000 fails validation and stores no book.                              *)
C35_TooManyCopiesRejected ==
    \A n \in {10001, 100000} :
        /\ BookCreate(Some(n)) = None
        /\ nextBookId \notin
               DOMAIN UnitOfWork(Db, create_book(Db, nextBookId, NULL_ISBN, n)).db.books

(* C36: of two overlapping Return requests for the same BORROWED record    *)
(* exactly one succeeds: a Return commits successfully only for a record   *)
(* that the store still shows as BORROWED, and it raises the book's        *)
(* available_copies by exactly 1.                                          *)
C36_OneReturnWins ==
    [][\A t \in Txns :
         (/\ txns[t].op = "Return" /\ txns[t].pc = "second" /\ txns'[t].pc = "idle"
          /\ Served("Return") /\ last'.kind = "OK")
         => LET r == txns[t].record
                b == records[r].book_id
            IN /\ records[r].status = "BORROWED"
               /\ books'[b].available_copies = books[b].available_copies + 1]_vars

(* C37: however Borrow requests for the same (book, member) pair overlap,  *)
(* the pair never ends up with two BORROWED records.                       *)
C37_PairBorrowedOnce ==
    \A b \in DOMAIN books, m \in DOMAIN members :
        Cardinality(PairBorrowed(records, b, m)) <= 1

(* C38: a successful Borrow(b, m) changes only the available_copies of     *)
(* book b and appends one record; a successful Return(r) changes only the  *)
(* status and return_date of record r and the available_copies of its      *)
(* book. Every other book, total_copies, all members, every other record   *)
(* and the id counters stay as they were.                                  *)
C38_OnlyTheNamedRows ==
    [][LET OtherBooksKept(b) ==
               /\ DOMAIN books' = DOMAIN books
               /\ \A i \in DOMAIN books \ {b} : books'[i] = books[i]
               /\ books'[b] = [books[b] EXCEPT !.available_copies =
                                                   books'[b].available_copies]
           RestKept ==
               /\ members' = members
               /\ nextBookId' = nextBookId
               /\ nextMemberId' = nextMemberId
       IN /\ (Served("Borrow") /\ last'.kind = "OK")
             => /\ OtherBooksKept(last'.args[1])
                /\ RestKept
                /\ Len(records') = Len(records) + 1
                /\ SubSeq(records', 1, Len(records)) = records
          /\ (Served("Return") /\ last'.kind = "OK")
             => LET r == last'.args[1]
                IN /\ OtherBooksKept(records[r].book_id)
                   /\ RestKept
                   /\ DOMAIN records' = DOMAIN records
                   /\ \A i \in DOMAIN records \ {r} : records'[i] = records[i]
                   /\ records'[r] = [records[r] EXCEPT
                                         !.status = records'[r].status,
                                         !.return_date = records'[r].return_date]]_vars

(* C38 witness: a Return succeeded while a second book and a second record *)
(* were in the store, the other record still BORROWED.                     *)
C38_Witness ==
    /\ last.op = "Return"
    /\ last.kind = "OK"
    /\ Cardinality(DOMAIN books) >= 2
    /\ \E i \in DOMAIN records :
          /\ i # last.args[1]
          /\ records[i].status = "BORROWED"
          /\ records[i].book_id # records[last.args[1]].book_id

(* C39: in every reachable state each BorrowRecord has status BORROWED or  *)
(* RETURNED, is RETURNED exactly when its return_date is set, and has a    *)
(* due_date that is not earlier than its borrow_date.                      *)
C39_RecordWellFormed ==
    \A i \in DOMAIN records :
        /\ records[i].status \in {"BORROWED", "RETURNED"}
        /\ (records[i].status = "RETURNED") <=> (records[i].return_date # None)
        /\ records[i].due_date >= records[i].borrow_date

(* C39 witness: a record borrowed on the first day and returned on a later *)
(* day stands next to a record that is still out.                          *)
C39_Witness ==
    \E i, j \in DOMAIN records :
        /\ records[i].status = "RETURNED"
        /\ records[i].return_date = Some(today)
        /\ records[i].borrow_date < today
        /\ records[j].status = "BORROWED"
        /\ records[j].return_date = None

(* C40: after any sequence of CreateMember, UpdateMember and DeleteMember  *)
(* calls, an UpdateMember with is_active sent as an explicit null          *)
(* included, every stored member's is_active is exactly true or false.     *)
C40_IsActiveIsBoolean ==
    \A m \in DOMAIN members : members[m].is_active \in {Some(TRUE), Some(FALSE)}

====
